---- MODULE Spec2Model ----
(***************************************************************************)
(* A model of the suspenders query-set builder (suspenders/query_set.py),  *)
(* the query classes it compiles to (suspenders/queries.py) and the        *)
(* execution path through the document store (suspenders/utils.py).        *)
(*                                                                         *)
(* Python values are modelled as follows.  A dict is a record that holds   *)
(* exactly the keys the dict holds.  None is the empty sequence and a      *)
(* present optional value v is <<v>>.  A QuerySet instance is an index     *)
(* into qs; the record at that index holds the instance's attributes.      *)
(* An exception is the name of its class; "" means nothing was raised.     *)
(***************************************************************************)
EXTENDS Integers, Sequences, FiniteSets, TLC

VARIABLES
    qs,           \* the SuspendersQuerySet instances the caller holds
    searchCalls,  \* searchCalls[i]: conn.search calls issued by instance i
    countCalls,   \* countCalls[i]: conn.count calls issued by instance i
    last,         \* the last call made and what it returned or raised
    bq,           \* a BoolQuery construction: its arguments and how it ended
    rset,         \* a ResultSet the caller holds, and the calls made on it
    bulk,         \* the BulkManager instances, their buffers and what was sent
    threads,      \* callers running execute() on one QuerySet at the same time
    item,         \* an IndexedItem, its saves and what the index was given
    model         \* a document handed to SuspendersModel.type_from_fields

vars == <<qs, searchCalls, countCalls, last, bq, rset, bulk, threads, item, model>>

\* the state of the collaborators of the QuerySet
appVars == <<bulk, threads, item, model>>

None == <<>>
Some(v) == <<v>>

\* ------------------------------------------------------------------ bounds
MaxInstances == 3
MaxWork == 4
RECURSIVE SumSeq(_)
SumSeq(s) == IF s = <<>> THEN 0 ELSE Head(s) + SumSeq(Tail(s))

\* ------------------------------------------------------------------ filters
\* suspenders/filters.py is not part of the sources; Filter, parse_filter and
\* merge follow the specification's description of them.
parse_filter(field, op, value) ==
    [name |-> field, kind |-> op, value |-> value, is_multi |-> (op = "in")]

merge(filter, other) ==
    IF filter.name = other.name /\ filter.kind = other.kind /\ filter.kind = "in"
    THEN Some([filter EXCEPT !.value = filter.value \cup other.value])
    ELSE None

Filter_to_dict(f) ==
    [clause |-> IF f.kind = "in" THEN "terms" ELSE "term",
     field |-> f.name, value |-> f.value]

\* An operation that may raise returns Ok(v) or Raise(class, message).
Ok(v) == [raises |-> "", value |-> v]
Raise(e, m) == [raises |-> e, msg |-> m]

\* Python truthiness of an optional integer and of a list (None and [] are
\* both falsy, and nothing in the code tells them apart).
Truthy(opt) == opt # None /\ opt[1] # 0
NonEmpty(list) == list # <<>>

\* ------------------------------------------------------------------ queries
MatchAllQuery == [cls |-> "MatchAllQuery"]

MatchQuery(field, value) ==
    [cls |-> "MatchQuery", field |-> field, value |-> value, max_expansions |-> 50]

TermQuery(field, value) == [cls |-> "TermQuery", field |-> field, value |-> value]

\* BoolQuery.__init__ that accepts minimum_should_match without should clauses
BoolQuery_msm_unchecked(must, maybe, must_not, filter, minimum_should_match, acts_as_filter) ==
    IF NonEmpty(must_not) /\ ~(NonEmpty(must) \/ NonEmpty(maybe) \/ acts_as_filter)
    THEN Raise("InvalidQuerySet", "must_not only")
    ELSE IF ~(NonEmpty(must) \/ NonEmpty(maybe) \/ NonEmpty(must_not))
    THEN Raise("InvalidQuerySet", "empty boolean query")
    ELSE Ok([cls |-> "BoolQuery", must |-> must, maybe |-> maybe, must_not |-> must_not,
             filter |-> filter, minimum_should_match |-> minimum_should_match])

\* BoolQuery.__init__ whose must_not check forgets acts_as_filter
BoolQuery_unflagged(must, maybe, must_not, filter, minimum_should_match, acts_as_filter) ==
    IF Truthy(minimum_should_match) /\ ~NonEmpty(maybe)
    THEN Raise("ValueError", "minimum_should_match without optional matches")
    ELSE IF NonEmpty(must_not) /\ ~(NonEmpty(must) \/ NonEmpty(maybe))
    THEN Raise("InvalidQuerySet", "must_not only")
    ELSE IF ~(NonEmpty(must) \/ NonEmpty(maybe) \/ NonEmpty(must_not))
    THEN Raise("InvalidQuerySet", "empty boolean query")
    ELSE Ok([cls |-> "BoolQuery", must |-> must, maybe |-> maybe, must_not |-> must_not,
             filter |-> filter, minimum_should_match |-> minimum_should_match])

\* BoolQuery.__init__: the three validations, in the order the code makes them.
BoolQuery(must, maybe, must_not, filter, minimum_should_match, acts_as_filter) ==
    IF Truthy(minimum_should_match) /\ ~NonEmpty(maybe)
    THEN Raise("ValueError", "minimum_should_match without optional matches")
    ELSE IF NonEmpty(must_not) /\ ~(NonEmpty(must) \/ NonEmpty(maybe) \/ acts_as_filter)
    THEN Raise("InvalidQuerySet", "must_not only")
    ELSE IF ~(NonEmpty(must) \/ NonEmpty(maybe) \/ NonEmpty(must_not))
    THEN Raise("InvalidQuerySet", "empty boolean query")
    ELSE Ok([cls |-> "BoolQuery", must |-> must, maybe |-> maybe, must_not |-> must_not,
             filter |-> filter, minimum_should_match |-> minimum_should_match])

\* ConstantScoreQuery.__init__: a query object is always truthy, None is not.
ConstantScoreQuery(filter) ==
    IF filter = None
    THEN Raise("ValueError", "constant score without a filter")
    ELSE Ok([cls |-> "ConstantScoreQuery", filter |-> filter[1]])

NegativeBoost(negative, positive) ==
    [cls |-> "NegativeBoost", positive |-> positive, negative |-> negative]

\* to_dict of the queries and filters that serialise without raising.
RECURSIVE to_dict(_)
to_dict(q) ==
    IF "cls" \notin DOMAIN q THEN Filter_to_dict(q)
    ELSE IF q.cls = "MatchAllQuery" THEN [match_all |-> <<>>]
    ELSE IF q.cls = "MatchQuery"
    THEN [match |-> [field |-> q.field, query |-> q.value,
                     max_expansions |-> q.max_expansions]]
    ELSE IF q.cls = "TermQuery" THEN [term |-> [field |-> q.field, value |-> q.value]]
    ELSE IF q.cls = "ConstantScoreQuery"
    THEN [constant_score |-> [filter |-> to_dict(q.filter)]]
    ELSE \* BoolQuery.to_dict: a key is written only when its value is truthy
        LET keys == (IF Truthy(q.minimum_should_match) THEN {"minimum_should_match"} ELSE {})
                    \cup (IF NonEmpty(q.must) THEN {"must"} ELSE {})
                    \cup (IF NonEmpty(q.maybe) THEN {"should"} ELSE {})
                    \cup (IF NonEmpty(q.must_not) THEN {"must_not"} ELSE {})
                    \cup (IF q.filter # None THEN {"filter"} ELSE {})
        IN [bool |->
             [k \in keys |->
                IF k = "minimum_should_match" THEN q.minimum_should_match[1]
                ELSE IF k = "must" THEN [i \in DOMAIN q.must |-> to_dict(q.must[i])]
                ELSE IF k = "should" THEN [i \in DOMAIN q.maybe |-> to_dict(q.maybe[i])]
                ELSE IF k = "must_not" THEN [i \in DOMAIN q.must_not |-> to_dict(q.must_not[i])]
                ELSE to_dict(q.filter[1])]]

\* NegativeBoost.to_dict.  _serialize_inner_queries returns a dict as it is and
\* iterates over anything else; positive holds one query object, which is not
\* iterable, so a truthy positive raises TypeError.
NegativeBoost_to_dict(q) ==
    IF q.positive # None
    THEN Raise("TypeError", "query object is not iterable")
    ELSE Ok([boosting |->
              [k \in {"negative_boost"} \cup (IF NonEmpty(q.negative) THEN {"negative"} ELSE {}) |->
                 IF k = "negative_boost" THEN "0.5"
                 ELSE [i \in DOMAIN q.negative |-> to_dict(q.negative[i])]]])

\* ------------------------------------------------------------------ FilterDict
\* self.filters: a dict key -> (type, filter), kept as the sequence of its
\* entries in insertion order; a key is a filter name with the prefix
\* add_positive and add_negative give to a multi filter.
FilterKey(prefix, name) == [prefix |-> prefix, name |-> name]

HasKey(filters, key) == \E i \in DOMAIN filters : filters[i].key = key

Lookup(filters, key) == filters[CHOOSE i \in DOMAIN filters : filters[i].key = key]

\* self.filters[key] = (type, value): an existing key keeps its position
SetItem(filters, key, type, value) ==
    LET entry == [key |-> key, type |-> type, filter |-> value]
    IN IF HasKey(filters, key)
       THEN [i \in DOMAIN filters |-> IF filters[i].key = key THEN entry ELSE filters[i]]
       ELSE Append(filters, entry)

\* FilterDict.__check that never tries the merge: the new filter replaces the old
FilterDict_check_overwrite(filters, key, value, debug) ==
    [raises |-> "", value |-> value, logged |-> FALSE]

\* FilterDict.__check that treats every failed merge as strict mode does
FilterDict_check_strict(filters, key, value, debug) ==
    IF HasKey(filters, key) /\ merge(Lookup(filters, key).filter, value) = None
    THEN [raises |-> "ValueError", value |-> value, logged |-> FALSE]
    ELSE [raises |-> "", logged |-> FALSE,
          value |-> IF HasKey(filters, key)
                    THEN merge(Lookup(filters, key).filter, value)[1] ELSE value]

\* FilterDict.__check: the filter to store, or the ValueError of strict mode;
\* logged tells that the overwrite was reported through the logger.
FilterDict_check(filters, key, value, debug) ==
    IF HasKey(filters, key)
    THEN LET next_value == merge(Lookup(filters, key).filter, value)
         IN IF next_value # None
            THEN [raises |-> "", value |-> next_value[1], logged |-> FALSE]
            ELSE IF debug
            THEN [raises |-> "ValueError", value |-> value, logged |-> FALSE]
            ELSE [raises |-> "", value |-> value, logged |-> TRUE]
    ELSE [raises |-> "", value |-> value, logged |-> FALSE]

\* FilterDict.add_positive / add_negative, type "+" or "-"
FilterDict_add(filters, type, name, value, debug) ==
    LET key == IF value.is_multi THEN FilterKey(type, name) ELSE FilterKey("", name)
        checked == FilterDict_check(filters, key, value, debug)
    IN IF checked.raises # ""
       THEN [raises |-> checked.raises, filters |-> filters, logged |-> FALSE]
       ELSE [raises |-> "", filters |-> SetItem(filters, key, type, checked.value),
             logged |-> checked.logged]

add_positive(filters, name, value, debug) == FilterDict_add(filters, "+", name, value, debug)

add_negative(filters, name, value, debug) == FilterDict_add(filters, "-", name, value, debug)

has_values(filters) == Len(filters) > 0

positive_filters(filters) ==
    LET keep(e) == e.type = "+" IN
    [i \in DOMAIN SelectSeq(filters, keep) |-> SelectSeq(filters, keep)[i].filter]

negative_filters(filters) ==
    LET keep(e) == e.type = "-" IN
    [i \in DOMAIN SelectSeq(filters, keep) |-> SelectSeq(filters, keep)[i].filter]

\* ------------------------------------------------------------------ QuerySet
DefaultPageSize == 10
DefaultMinimumShouldMatch == 1

\* SuspendersQuerySet.__init__
NewQuerySet ==
    [_min_score |-> None,
     _from |-> 0,
     _page_size |-> DefaultPageSize,
     _sort |-> <<>>,
     _must_search_set |-> <<>>,
     _optional_search_set |-> <<>>,
     _filters |-> <<>>,
     _negative_boost_queries |-> <<>>,
     _aggs_fields |-> <<>>,
     _is_none_set |-> FALSE,
     _result_set |-> None,
     minimum_should_match |-> DefaultMinimumShouldMatch,
     aggregations_use_sampler |-> FALSE,
     _track_total_hits |-> FALSE]

\* the attributes SuspendersQuerySet.copy carries over (conn is not modelled:
\* every instance is bound to the one document store)
CopiedAttrs ==
    {"_min_score", "_from", "_page_size", "_sort", "_must_search_set",
     "_optional_search_set", "_filters", "_aggs_fields", "_negative_boost_queries",
     "minimum_should_match", "aggregations_use_sampler", "_track_total_hits",
     "_is_none_set"}

\* copy with the result cache carried over as well
copy_with_cache(self) == self

\* copy that leaves _is_none_set out of the attributes it carries over
copy_without_none_flag(self) ==
    [attr \in DOMAIN NewQuerySet |->
        IF attr \in CopiedAttrs \ {"_is_none_set"} THEN self[attr] ELSE NewQuerySet[attr]]

\* SuspendersQuerySet.copy: a fresh instance, then the listed attributes
copy(self) ==
    [attr \in DOMAIN NewQuerySet |->
        IF attr \in CopiedAttrs THEN self[attr] ELSE NewQuerySet[attr]]

\* ------------------------------------------------------------------ compilation
\* a search-context BoolQuery that takes the negative filters as its must_not
search_context_must_not(self) ==
    BoolQuery(self._must_search_set, self._optional_search_set,
              negative_filters(self._filters), None,
              IF NonEmpty(self._optional_search_set)
              THEN Some(self.minimum_should_match) ELSE None,
              FALSE)

\* the search-context BoolQuery of _serialized_query; must_not is always empty
\* here and minimum_should_match is passed only with optional queries
search_context(self) ==
    BoolQuery(self._must_search_set, self._optional_search_set, <<>>, None,
              IF NonEmpty(self._optional_search_set)
              THEN Some(self.minimum_should_match) ELSE None,
              FALSE)

\* the filter-context BoolQuery with positive and negative filters exchanged
filter_context_swapped(self) ==
    BoolQuery(negative_filters(self._filters), <<>>, positive_filters(self._filters),
              None, None, TRUE)

\* the filter-context BoolQuery built without acts_as_filter
filter_context_scoring(self) ==
    BoolQuery(positive_filters(self._filters), <<>>, negative_filters(self._filters),
              None, None, FALSE)

\* the filter-context BoolQuery of _serialized_query
filter_context(self) ==
    BoolQuery(positive_filters(self._filters), <<>>, negative_filters(self._filters),
              None, None, TRUE)

\* the query _serialized_query picks before the negative boost is applied
context_query(self) ==
    LET has_search_context ==
            NonEmpty(self._must_search_set) \/ NonEmpty(self._optional_search_set)
        has_filter_context == has_values(self._filters)
    IN IF has_search_context
       THEN LET res == search_context(self)
            IN IF res.raises # "" THEN res
               ELSE IF has_filter_context
               THEN LET filter == filter_context(self)
                    IN IF filter.raises # "" THEN filter
                       ELSE BoolQuery(<<res.value>>, <<>>, <<>>, Some(filter.value),
                                      None, FALSE)
               ELSE res
       ELSE IF has_filter_context
       THEN LET filter == filter_context(self)
            IN IF filter.raises # "" THEN filter
               ELSE ConstantScoreQuery(Some(filter.value))
       ELSE Ok(MatchAllQuery)

\* SuspendersQuerySet._serialized_query
serialized_query(self) ==
    LET res == context_query(self)
    IN IF res.raises # "" THEN res
       ELSE IF NonEmpty(self._negative_boost_queries)
       THEN NegativeBoost_to_dict(
                NegativeBoost(self._negative_boost_queries, Some(res.value)))
       ELSE Ok(to_dict(res.value))

\* TermsAggregation as SuspendersQuerySet.aggregation builds it, and its to_dict
TermsAggregation(term, size) == [field |-> term, name |-> term, size |-> size]

\* TopHits(sort=, size=, name=)
TopHits(sort, size, name) == [name |-> name, size |-> size, _sort |-> sort]

\* a TopHits that serializes under a fixed key
TopHits_serialize_unnamed(th) ==
    [n \in {"top_hits"} |-> [top_hits |-> [sort |-> th._sort, size |-> th.size]]]

\* TopHits.serialize: {self.name: {"top_hits": {"sort": ..., "size": ...}}}
TopHits_serialize(th) ==
    [n \in {th.name} |-> [top_hits |-> [sort |-> th._sort, size |-> th.size]]]

\* TermsAggregation(term, name=term, size=size, with_top_hits=th)
TermsAggregationTopHits(term, size, th) ==
    [field |-> term, name |-> term, size |-> size, with_top_hits |-> th]

\* the entry of TermsFilter.serialize; an aggregation built without
\* with_top_hits has no such attribute here
TermsAggregation_to_dict(agg) ==
    [key \in {"terms"} \cup (IF "with_top_hits" \in DOMAIN agg THEN {"aggregations"} ELSE {}) |->
       IF key = "terms"
       THEN [k \in {"field"} \cup (IF agg.size # 0 THEN {"size"} ELSE {}) |->
               IF k = "field" THEN agg.field ELSE agg.size]
       ELSE TopHits_serialize(agg.with_top_hits)]

\* TermsFilter.serialize: {self.name: inner}
TermsFilter_serialize(agg) == [n \in {agg.name} |-> TermsAggregation_to_dict(agg)]

\* SuspendersQuerySet._serialized_aggregations: res.update(agg.to_dict()) in turn
serialized_aggregations(self) ==
    LET aggs == self._aggs_fields
        names == {aggs[i].name : i \in DOMAIN aggs}
        lastOf(n) == CHOOSE i \in DOMAIN aggs :
                        /\ aggs[i].name = n
                        /\ \A j \in DOMAIN aggs : aggs[j].name = n => j <= i
    IN [n \in names |-> TermsAggregation_to_dict(aggs[lastOf(n)])]

SamplerShardSize == 10

\* the default of "sort": ["_score", "id"]
DefaultSort == <<[field |-> "_score"], [field |-> "id"]>>

\* the aggregations put in the document as they are, whatever the flag
aggregations_unwrapped(self) == serialized_aggregations(self)

\* SuspendersQuerySet.to_dict: the value of "aggregations", inside the sampler
\* when aggregations_use_sampler is set
aggregations_document(self) ==
    IF self.aggregations_use_sampler
    THEN [__sampler__ |->
            [sampler |-> [shard_size |-> SamplerShardSize],
             aggs |-> serialized_aggregations(self)]]
    ELSE serialized_aggregations(self)

\* SuspendersQuerySet.to_dict
QuerySet_to_dict(self) ==
    IF self._is_none_set THEN Ok([is_none |-> TRUE])
    ELSE LET query == serialized_query(self)
             keys == {"sort", "size", "query", "track_total_hits"}
                     \cup (IF self._min_score # None THEN {"min_score"} ELSE {})
                     \cup (IF self._from # 0 THEN {"from"} ELSE {})
                     \cup (IF NonEmpty(self._aggs_fields) THEN {"aggregations"} ELSE {})
         IN IF query.raises # "" THEN query
            ELSE Ok([k \in keys |->
                     IF k = "sort" THEN (IF NonEmpty(self._sort) THEN self._sort ELSE DefaultSort)
                     ELSE IF k = "size" THEN self._page_size
                     ELSE IF k = "query" THEN query.value
                     ELSE IF k = "track_total_hits" THEN self._track_total_hits
                     ELSE IF k = "min_score" THEN self._min_score[1]
                     ELSE IF k = "from" THEN self._from
                     ELSE aggregations_document(self)])

\* ------------------------------------------------------------------ mutators
\* The body of each @clone method, applied to the instance clone hands it.
\* A body returns [raises, self, logged]: what it raised, the instance as the
\* body left it, and whether FilterDict reported an overwrite to the logger.
Done(self) == [raises |-> "", self |-> self, logged |-> FALSE]
Failed(e, self) == [raises |-> e, self |-> self, logged |-> FALSE]

min_score(self, score) == Done([self EXCEPT !._min_score = Some(score)])

\* match_text(key=values): one MatchQuery per value
match_text(self, key, values) ==
    Done([self EXCEPT !._must_search_set =
            @ \o [i \in DOMAIN values |-> MatchQuery(key, values[i])]])

add_optional_query(self, query) ==
    Done([self EXCEPT !._optional_search_set = Append(@, query)])

\* sorted_by: an ordering is its first character (when it is one of _ - +)
\* and the rest; "_score" is the only ordering that may start with "_"
sorted_by(self, orderings) ==
    LET invalid(o) == o.prefix = "_" /\ o.name # "score"
        entry(o) == IF o.prefix = "_" THEN [key |-> "_score", order |-> "desc"]
                    ELSE IF o.prefix = "-" THEN [key |-> o.name, order |-> "desc"]
                    ELSE [key |-> o.name, order |-> "asc"]
    IN IF \E i \in DOMAIN orderings : invalid(orderings[i])
       THEN Failed("ValueError", self)
       ELSE Done([self EXCEPT !._sort = [i \in DOMAIN orderings |-> entry(orderings[i])]])

aggregation(self, term, size) ==
    Done([self EXCEPT !._aggs_fields = Append(@, TermsAggregation(term, size))])

\* aggregation(term, size=size, with_top_hits=th)
aggregation_top_hits(self, term, size, th) ==
    Done([self EXCEPT !._aggs_fields = Append(@, TermsAggregationTopHits(term, size, th))])

\* filter / exclude: add each filter of the list in turn, stopping at a raise
RECURSIVE add_filters(_, _, _, _, _)
add_filters(self, type, fl, debug, logged) ==
    IF fl = <<>> THEN [raises |-> "", self |-> self, logged |-> logged]
    ELSE LET r == IF type = "+"
                  THEN add_positive(self._filters, Head(fl).name, Head(fl), debug)
                  ELSE add_negative(self._filters, Head(fl).name, Head(fl), debug)
         IN IF r.raises # ""
            THEN [raises |-> r.raises, self |-> self, logged |-> logged]
            ELSE add_filters([self EXCEPT !._filters = r.filters], type, Tail(fl),
                             debug, logged \/ r.logged)

filter(self, fl, debug) == add_filters(self, "+", fl, debug, FALSE)

exclude(self, fl, debug) == add_filters(self, "-", fl, debug, FALSE)

suppress(self, fl) == Done([self EXCEPT !._negative_boost_queries = @ \o fl])

none(self) == Done([self EXCEPT !._is_none_set = TRUE])

no_pages(self) ==
    Done([self EXCEPT !._from = 0, !._page_size = 0, !._track_total_hits = FALSE])

enable_hit_counter(self) == Done([self EXCEPT !._track_total_hits = TRUE])

disable_hit_counter(self) == Done([self EXCEPT !._track_total_hits = FALSE])

\* paginate that takes the page number for the number of pages to skip
paginate_from_page(self, page, page_size) ==
    IF page <= 0 \/ page_size <= 0 THEN Failed("ValueError", self)
    ELSE Done([self EXCEPT !._from = page * page_size, !._page_size = page_size])

paginate(self, page, page_size) ==
    IF page <= 0 THEN Failed("ValueError", self)
    ELSE IF page_size <= 0 THEN Failed("ValueError", self)
    ELSE Done([self EXCEPT !._from = (page - 1) * page_size, !._page_size = page_size])

\* slice without the test of the derived page size
slice_allows_empty(self, start, end) ==
    IF 0 > start \/ start > end THEN Failed("ValueError", self)
    ELSE Done([self EXCEPT !._from = start, !._page_size = end - start])

slice(self, start, end) ==
    LET page_size == end - start
    IN IF 0 > start THEN Failed("ValueError", self)
       ELSE IF start > end THEN Failed("ValueError", self)
       ELSE IF 1 > page_size THEN Failed("ValueError", self)
       ELSE Done([self EXCEPT !._from = start, !._page_size = page_size])

all(self) == Done(self)

\* ------------------------------------------------------------------ ResultSet
\* A raw response is [hits |-> [hits, max_score, total?], _shards]; hits.total,
\* when present, is [int |-> n] for a plain integer and [value, relation] for
\* the object form.
RawResponse(hits, total) ==
    [hits |-> [k \in {"hits", "max_score"} \cup (IF total = None THEN {} ELSE {"total"}) |->
                 IF k = "hits" THEN hits ELSE IF k = "max_score" THEN 0 ELSE total[1]],
     _shards |-> 0]

\* a raw response the store sends with the "aggregations" it computed
WithAggregations(response, aggregations) ==
    [k \in DOMAIN response \cup {"aggregations"} |->
       IF k = "aggregations" THEN aggregations ELSE response[k]]

\* isinstance(value, int) and isinstance(value, dict): a JSON number is
\* [int |-> n], a JSON object is the record of its members
IsInt(value) == "int" \in DOMAIN value
IsDict(value) == ~IsInt(value)

\* the relation "eq" given to every total, whatever its form
total_relation_eq(hits) == "eq"

\* ResultSet.__init__: the relation of hits.total, when hits.total is there
total_relation(hits) == IF IsInt(hits.total) THEN "eq" ELSE hits.total.relation

\* ResultSet.__init__: the members of "aggregations" or, when the reserved
\* key is among them, the members of the sampler
aggregation_items(response) ==
    IF "__sampler__" \in DOMAIN response.aggregations
    THEN response.aggregations.__sampler__
    ELSE response.aggregations

\* ResultSet.__init__: self.aggregations, the buckets of every member that is
\* a dict.  (results["buckets"] presumes what the store sends for a terms
\* aggregation: a dict member always carries its buckets.)
decoded_aggregations(response) ==
    IF "aggregations" \notin DOMAIN response THEN <<>>
    ELSE LET items == aggregation_items(response)
         IN [name \in {n \in DOMAIN items : IsDict(items[n])} |-> items[name].buckets]

\* ResultSet.__init__: total_relation is set only when hits.total is present;
\* type_from_fields is the method of the class until a callback replaces it
ResultSet(response) ==
    LET hits == response.hits
        has_total == "total" \in DOMAIN hits
    IN [k \in {"_raw", "_documents", "total", "max_score", "aggregations",
               "_objects", "_object_dictionary", "type_from_fields"}
              \cup (IF has_total THEN {"total_relation"} ELSE {}) |->
          IF k = "_raw" THEN response
          ELSE IF k = "_documents" THEN hits.hits
          ELSE IF k = "max_score" THEN hits.max_score
          ELSE IF k = "total"
          THEN (IF ~has_total THEN None
                ELSE IF IsInt(hits.total) THEN Some(hits.total.int)
                ELSE Some(hits.total.value))
          ELSE IF k = "total_relation" THEN total_relation(hits)
          ELSE IF k = "aggregations" THEN decoded_aggregations(response)
          ELSE IF k = "type_from_fields" THEN "Result"
          ELSE <<>>]

\* SuspendersQuerySet.empty_result_set
empty_result_set == ResultSet(RawResponse(<<>>, Some([int |-> 0])))

\* SuspendersQuerySet._execute_callback of the base class
execute_callback(result_set) == result_set

\* SuspendersModel.execute_callback: the ResultSet is given the
\* type_from_fields of the model map (any caller may assign one the same way)
bound_execute_callback(result_set, type_from_fields) ==
    [result_set EXCEPT !.type_from_fields = type_from_fields]

\* the "_source" or "fields" section of a hit, empty when the hit has none
Section(doc, field_name) == IF field_name \in DOMAIN doc THEN doc[field_name] ELSE <<>>

\* the two sections aggregated with "_source" written last
aggregate_fields_source_last(source, fields) ==
    [key \in DOMAIN source \cup DOMAIN fields |->
       IF key \in DOMAIN source THEN source[key] ELSE fields[key]]

\* ResultSet._clean_doc, the loop over ["_source", "fields"]: every key of
\* each section in turn, a later section overwriting an earlier one.  (The
\* keys of a decoded JSON object are strings, which str() leaves as they are.)
aggregate_fields(source, fields) ==
    [key \in DOMAIN source \cup DOMAIN fields |->
       IF key \in DOMAIN fields THEN fields[key] ELSE source[key]]

\* ResultSet._clean_doc: the aggregated sections, then "id" and "_score"
\* assigned from the hit itself; doc["_score"] raises when the hit has none
clean_doc(doc) ==
    LET cleaned_doc == aggregate_fields(Section(doc, "_source"), Section(doc, "fields"))
    IN IF "_score" \notin DOMAIN doc THEN Raise("KeyError", "_score")
       ELSE Ok([key \in DOMAIN cleaned_doc \cup {"id", "_score"} |->
                  IF key = "_score" THEN doc._score
                  ELSE IF key = "id"
                  THEN (IF "id" \in DOMAIN doc THEN doc.id
                        ELSE IF "_id" \in DOMAIN doc THEN doc._id ELSE None)
                  ELSE cleaned_doc[key]])

\* as_dict: "if not self._object_dictionary", an empty list being falsy
dictionary_cached(self) == NonEmpty(self._object_dictionary)

\* ResultSet.as_dict: [raises, value, self], self being the ResultSet after
\* the call
as_dict(self) ==
    IF dictionary_cached(self)
    THEN [raises |-> "", value |-> self._object_dictionary, self |-> self]
    ELSE LET docs == self._documents
             cleaned == [k \in 1..Len(docs) |-> clean_doc(docs[k])]
             objects == [k \in 1..Len(docs) |-> cleaned[k].value]
         IN IF \E k \in 1..Len(docs) : cleaned[k].raises # ""
            THEN [raises |-> "KeyError", value |-> <<>>, self |-> self]
            ELSE [raises |-> "", value |-> objects,
                  self |-> [self EXCEPT !._object_dictionary = objects]]

\* the strings int() accepts, among the identifiers the store hands out
IntLiterals == {"0", "1", "2", "3", "4", "5", "6", "7", "8", "9"}

\* Result(doc): the container holding the attributes of the document
Result(doc) == [class |-> "Result", attributes |-> doc]

\* the per-document reconstruction function a ResultSet holds:
\*   "Result"          ResultSet.type_from_fields, the default;
\*   "SuspendersModel" SuspendersModel.type_from_fields, whose
\*                     process_load_fields does int(load_fields["id"]);
\*   "Optional"        a function assigned by the caller that returns None
\*                     for a document with no field of its own.
\* It returns Some(object), None, or raises.
type_from_fields(self, fields) ==
    IF self.type_from_fields = "Result" THEN Ok(Some(Result(fields)))
    ELSE IF self.type_from_fields = "SuspendersModel"
    THEN (IF fields.id \in IntLiterals
          THEN Ok(Some([class |-> "Model", search_results |-> fields]))
          ELSE Raise("ValueError", fields.id))
    ELSE (IF DOMAIN fields = {"id", "_score"} THEN Ok(None)
          ELSE Ok(Some(Result(fields))))

\* a ResultSet that never takes its objects from the cache
objects_cached_never(self) == FALSE

\* as_objects: "if not self._objects", an empty list being falsy
objects_cached(self) == NonEmpty(self._objects)

\* ResultSet.as_objects: [raises, value, self, invoked]; invoked[k] counts the
\* calls of type_from_fields on hit k.  The loop stops at the first hit whose
\* reconstruction raises; "if obj" leaves out what is falsy.
as_objects(self, invoked) ==
    IF objects_cached(self)
    THEN [raises |-> "", value |-> self._objects, self |-> self, invoked |-> invoked]
    ELSE LET dicts == as_dict(self)
             docs == dicts.value
             outs == [k \in 1..Len(docs) |-> type_from_fields(dicts.self, docs[k])]
             failed == {k \in 1..Len(docs) : outs[k].raises # ""}
             stop == IF failed = {} THEN Len(docs)
                     ELSE CHOOSE k \in failed : \A j \in failed : k <= j
             called == [k \in DOMAIN invoked |-> invoked[k] + (IF k <= stop THEN 1 ELSE 0)]
             truthy(out) == out.value # None
             kept == SelectSeq(outs, truthy)
             objects == [k \in 1..Len(kept) |-> kept[k].value[1]]
         IN IF dicts.raises # ""
            THEN [raises |-> dicts.raises, value |-> <<>>, self |-> self, invoked |-> invoked]
            ELSE IF failed # {}
            THEN [raises |-> outs[stop].raises, value |-> <<>>, self |-> dicts.self,
                  invoked |-> called]
            ELSE [raises |-> "", value |-> objects,
                  self |-> [dicts.self EXCEPT !._objects = objects], invoked |-> called]

\* ------------------------------------------------------------------ errors
\* What the connection raises: IOError, or a TransportError with its
\* status_code and info.  info is described by its shape: not a dict, a dict
\* without "error", an "error" that is not a dict, an "error" dict without
\* "root_cause", a "root_cause" that is None or a non-empty string, or an
\* "error" dict whose root_cause lists errors of the given types.
IOError == [exc |-> "IOError"]
TransportError(shape, root_cause, status) ==
    [exc |-> "TransportError", shape |-> shape, root_cause |-> root_cause, status |-> status]

\* __match_error that knows the generic class only
ErrorClass_generic(error_type) == "SearchError"

\* __match_error: the class chosen for an error type
ErrorClass(error_type) ==
    IF error_type = "index_not_found_exception" THEN "IndexMissingException"
    ELSE IF error_type = "document_missing_exception" THEN "DocumentMissingException"
    ELSE IF error_type = "too_complex_to_determinize_exception" THEN "TooComplexToDetermine"
    ELSE "SearchError"

\* __match_error always raises: ErrorClass(error=error, status=..., request_body=...)
match_error(error, status, request_body) ==
    Raise(ErrorClass(error.type),
          [error |-> error, status |-> status, request_body |-> request_body])

\* raise_on_transport_error that answers every malformed info with UnknownError
raise_on_transport_error_unknown(e, request_body) ==
    IF e.shape # "root_cause"
    THEN Raise("UnknownError",
               [error |-> e.shape, status |-> e.status, request_body |-> request_body])
    ELSE IF e.root_cause = <<>> THEN Ok(None)
    ELSE match_error([type |-> e.root_cause[1]], e.status, request_body)

\* raise_on_transport_error: what it raises, Ok(None) when it returns normally.
\* Subscripting or iterating a value that allows neither is a TypeError, which
\* is turned into ValueError(raw_error); a dict without "root_cause" is a
\* KeyError, which is not caught; the loop over an empty list raises nothing.
raise_on_transport_error(e, request_body) ==
    IF e.shape \in {"not_dict", "no_error_key"}
    THEN Raise("UnknownError",
               [error |-> e.shape, status |-> e.status, request_body |-> request_body])
    ELSE IF e.shape \in {"error_not_dict", "root_cause_not_list"}
    THEN Raise("ValueError", [error |-> e.shape])
    ELSE IF e.shape = "no_root_cause" THEN Raise("KeyError", [error |-> "root_cause"])
    ELSE IF e.root_cause = <<>> THEN Ok(None)
    ELSE match_error([type |-> e.root_cause[1]], e.status, request_body)

\* handle_elastic_search_errors(body) around a store call that raised e: the
\* exception that reaches the caller, Ok(None) when the context manager
\* swallows the exception
handle_elastic_search_errors(e, body) ==
    IF e.exc = "IOError"
    THEN Raise("NoServerAvailable",
               [error |-> "IOError", status |-> 500, request_body |-> body])
    ELSE raise_on_transport_error(e, body)

\* raw_search that lets no exception out
raw_search_swallows(body, outcome) ==
    IF "exc" \in DOMAIN outcome THEN Ok(None)
    ELSE Ok(Some(execute_callback(ResultSet(outcome))))

\* raw_search, given what conn.search did: the ResultSet, None when the error
\* handler swallowed the exception, or the exception raised
raw_search(body, outcome) ==
    IF "exc" \in DOMAIN outcome
    THEN handle_elastic_search_errors(outcome, body)
    ELSE Ok(Some(execute_callback(ResultSet(outcome))))

\* the body raw_count hands to the error handler: f"COUNT {indexes}"
CountLabel(indexes) == [label |-> "COUNT", indexes |-> indexes]

\* raw_count, given what conn.count did
raw_count(body, indexes, outcome) ==
    IF "exc" \in DOMAIN outcome
    THEN handle_elastic_search_errors(outcome, CountLabel(indexes))
    ELSE Ok(Some(outcome.count))

\* ------------------------------------------------------------------ inputs
Vals == {1, 2}

FilterInputs ==
    {parse_filter("f", "in", {v}) : v \in Vals} \cup {parse_filter("f", "term", {v}) : v \in Vals}

FilterLists == {<<f>> : f \in FilterInputs}

SuppressLists == {<<parse_filter("g", "term", {1})>>}

Orderings == {<<[prefix |-> "-", name |-> "f"]>>, <<[prefix |-> "_", name |-> "id"]>>}

\* (page, page_size) of paginate and (start, end) of slice
PageInputs == {<<2, 2>>, <<0, 1>>}
SliceInputs == {<<1, 3>>, <<2, 1>>}

\* what conn.search and conn.count may do
Responses ==
    {RawResponse(<<>>, None),
     RawResponse(<<[_id |-> 1]>>, Some([value |-> 1, relation |-> "eq"]))}

StoreErrors ==
    {IOError,
     TransportError("root_cause", <<"index_not_found_exception">>, 404),
     TransportError("root_cause", <<>>, 400)}

CountResponses == {[count |-> 0], [count |-> 2]}

\* ------------------------------------------------------------------ state machine
Instances == 1..Len(qs)

Calls == SumSeq(searchCalls) + SumSeq(countCalls)

\* the instances made and the store calls issued so far
Work == Len(qs) + Calls

\* what a call returned: the instance a mutator handed back (obj), the
\* ResultSet of execute (rs), the number of count (count); what it raised
\* (raises) with the attributes of the exception (exc); for filter and
\* exclude, settings.DEBUG during the call (debug); and, when the call reached
\* the store, what conn.search or conn.count did (store)
Returned(op, i, args, debug, store, raises, exc, obj, rs, count, logged) ==
    [op |-> op, self |-> i, args |-> args, debug |-> debug, store |-> store,
     raises |-> raises, exc |-> exc, obj |-> obj, rs |-> rs, count |-> count,
     logged |-> logged]

\* the clone decorator run on the method body itself, without the copy
clone_in_place(i) == [obj |-> i, self |-> qs[i]]

\* the clone decorator: the method body runs on self.copy(), a new object
clone(i) == [obj |-> Len(qs) + 1, self |-> copy(qs[i])]

\* A call of a @clone method on instance i whose body, run on object c.obj,
\* ended as out.  The object the body ran on holds what the body left in it;
\* the caller gets it only when the body returned.
Mutator(op, i, args, debug, c, out) ==
    /\ Len(qs) < MaxInstances
    /\ Work < MaxWork
    /\ IF c.obj \in Instances
       THEN /\ qs' = [qs EXCEPT ![c.obj] = out.self]
            /\ UNCHANGED <<searchCalls, countCalls>>
       ELSE IF out.raises = ""
       THEN /\ qs' = Append(qs, out.self)
            /\ searchCalls' = Append(searchCalls, 0)
            /\ countCalls' = Append(countCalls, 0)
       ELSE UNCHANGED <<qs, searchCalls, countCalls>>
    /\ last' = Returned(op, i, args, debug, None, out.raises, None,
                        IF out.raises = "" THEN c.obj ELSE 0, None, None, out.logged)
    /\ UNCHANGED <<bq, rset, appVars>>

\* debug is settings.DEBUG as FilterDict reads it during the call
Filter(i, fl, debug) ==
    Mutator("filter", i, fl, debug, clone(i), filter(clone(i).self, fl, debug))
Exclude(i, fl, debug) ==
    Mutator("exclude", i, fl, debug, clone(i), exclude(clone(i).self, fl, debug))
Suppress(i, fl) == Mutator("suppress", i, fl, FALSE, clone(i), suppress(clone(i).self, fl))
MatchText(i) ==
    Mutator("match_text", i, <<>>, FALSE, clone(i), match_text(clone(i).self, "t", <<"a">>))
AddOptionalQuery(i) ==
    Mutator("add_optional_query", i, <<>>, FALSE, clone(i),
            add_optional_query(clone(i).self, TermQuery("t", "b")))
SortedBy(i, o) == Mutator("sorted_by", i, o, FALSE, clone(i), sorted_by(clone(i).self, o))
Aggregation(i) ==
    Mutator("aggregation", i, <<>>, FALSE, clone(i), aggregation(clone(i).self, "f", 10))
MinScore(i) == Mutator("min_score", i, <<>>, FALSE, clone(i), min_score(clone(i).self, 1))
NoneSet(i) == Mutator("none", i, <<>>, FALSE, clone(i), none(clone(i).self))
NoPages(i) == Mutator("no_pages", i, <<>>, FALSE, clone(i), no_pages(clone(i).self))
EnableHitCounter(i) ==
    Mutator("enable_hit_counter", i, <<>>, FALSE, clone(i), enable_hit_counter(clone(i).self))
DisableHitCounter(i) ==
    Mutator("disable_hit_counter", i, <<>>, FALSE, clone(i), disable_hit_counter(clone(i).self))
Paginate(i, p) ==
    Mutator("paginate", i, p, FALSE, clone(i), paginate(clone(i).self, p[1], p[2]))
Slice(i, p) == Mutator("slice", i, p, FALSE, clone(i), slice(clone(i).self, p[1], p[2]))
All(i) == Mutator("all", i, <<>>, FALSE, clone(i), all(clone(i).self))

MutatorNames ==
    {"filter", "exclude", "suppress", "match_text", "add_optional_query", "sorted_by",
     "aggregation", "min_score", "none", "no_pages", "enable_hit_counter",
     "disable_hit_counter", "paginate", "slice", "all"}

\* execute that never finds a cached result
execute_cached_never(self) == FALSE

\* execute: "if self._result_set is not None"
execute_cached(self) == self._result_set # None

\* count that never finds a cached result
count_cached_never(self) == FALSE

\* count: "if self._result_set is not None"
count_cached(self) == self._result_set # None

\* the exception a query constructor raised, with its message, and the
\* exception the error handler raised, with its attributes
MessageExc(r) == Some([error |-> r.msg])
Exc(r) == Some(r.msg)

\* SuspendersQuerySet.execute on instance i, the store doing one of outcomes
execute(i, outcomes) ==
    LET self == qs[i]
        body == QuerySet_to_dict(self)
        ret(store, raises, exc, rs) ==
            Returned("execute", i, <<>>, FALSE, store, raises, exc, 0, rs, None, FALSE)
    IN /\ UNCHANGED <<countCalls, bq, rset, appVars>>
       /\ IF execute_cached(self)
          THEN /\ last' = ret(None, "", None, self._result_set)
               /\ UNCHANGED <<qs, searchCalls>>
          ELSE IF self._is_none_set
          THEN /\ last' = ret(None, "", None, Some(empty_result_set))
               /\ UNCHANGED <<qs, searchCalls>>
          ELSE IF body.raises # ""
          THEN /\ last' = ret(None, body.raises, MessageExc(body), None)
               /\ UNCHANGED <<qs, searchCalls>>
          ELSE /\ Work < MaxWork
               /\ \E outcome \in outcomes :
                    LET results == raw_search(body.value, outcome)
                    IN /\ searchCalls' = [searchCalls EXCEPT ![i] = @ + 1]
                       /\ IF results.raises # ""
                          THEN /\ qs' = qs
                               /\ last' = ret(Some(outcome), results.raises, Exc(results), None)
                          ELSE /\ qs' = [qs EXCEPT ![i]._result_set = results.value]
                               /\ last' = ret(Some(outcome), "", None, results.value)

Execute(i) == execute(i, Responses \cup StoreErrors)

\* count(): the body handed to conn.count holds "query" and, when set, "from"
count_body(body) ==
    [k \in {"query"} \cup (IF "from" \in DOMAIN body THEN {"from"} ELSE {}) |-> body[k]]

\* SuspendersQuerySet.count on instance i, the store doing one of outcomes
count(i, outcomes) ==
    LET self == qs[i]
        body == QuerySet_to_dict(self)
        ret(store, raises, exc, n) ==
            Returned("count", i, <<>>, FALSE, store, raises, exc, 0, None, n, FALSE)
    IN /\ UNCHANGED <<qs, searchCalls, bq, rset, appVars>>
       /\ IF count_cached(self)
          THEN /\ last' = ret(None, "", None, self._result_set[1].total)
               /\ UNCHANGED countCalls
          ELSE IF self._is_none_set
          THEN /\ last' = ret(None, "", None, Some(0))
               /\ UNCHANGED countCalls
          ELSE IF body.raises # ""
          THEN /\ last' = ret(None, body.raises, MessageExc(body), None)
               /\ UNCHANGED countCalls
          ELSE /\ Work < MaxWork
               /\ \E outcome \in outcomes :
                    LET result == raw_count(count_body(body.value), None, outcome)
                    IN /\ countCalls' = [countCalls EXCEPT ![i] = @ + 1]
                       /\ last' = IF result.raises # ""
                                  THEN ret(Some(outcome), result.raises, Exc(result), None)
                                  ELSE ret(Some(outcome), "", None, result.value)

Count(i) == count(i, CountResponses \cup StoreErrors)

NoCall == Returned("init", 0, <<>>, FALSE, None, "", None, 1, None, None, FALSE)

Init ==
    /\ qs = <<NewQuerySet>>
    /\ searchCalls = <<0>>
    /\ countCalls = <<0>>
    /\ last = NoCall
    /\ bq = None
    /\ rset = None
    /\ bulk = None
    /\ threads = None
    /\ item = None
    /\ model = None

Next ==
    \/ \E i \in Instances, fl \in FilterLists, debug \in BOOLEAN : Filter(i, fl, debug)
    \/ \E i \in Instances, fl \in FilterLists, debug \in BOOLEAN : Exclude(i, fl, debug)
    \/ \E i \in Instances, fl \in SuppressLists : Suppress(i, fl)
    \/ \E i \in Instances : MatchText(i)
    \/ \E i \in Instances : AddOptionalQuery(i)
    \/ \E i \in Instances, o \in Orderings : SortedBy(i, o)
    \/ \E i \in Instances : Aggregation(i)
    \/ \E i \in Instances : MinScore(i)
    \/ \E i \in Instances : NoneSet(i)
    \/ \E i \in Instances : NoPages(i)
    \/ \E i \in Instances : EnableHitCounter(i)
    \/ \E i \in Instances : DisableHitCounter(i)
    \/ \E i \in Instances, p \in PageInputs : Paginate(i, p)
    \/ \E i \in Instances, p \in SliceInputs : Slice(i, p)
    \/ \E i \in Instances : All(i)
    \/ \E i \in Instances : Execute(i)
    \/ \E i \in Instances : Count(i)

\* The query-set builder and its execution against the document store.
Spec == Init /\ [][Next]_vars

\* ------------------------------------------------------------------ BoolQuery alone
MaxClauses == 1
MaxMsm == 2

ClauseLists == {[i \in 1..n |-> TermQuery("t", "a")] : n \in 0..MaxClauses}

MsmValues == {None} \cup {Some(n) : n \in (0 - 1)..MaxMsm}

BoolArgs ==
    [must : ClauseLists, maybe : ClauseLists, must_not : ClauseLists,
     filter : {None, Some(TermQuery("t", "a"))},
     minimum_should_match : MsmValues, acts_as_filter : BOOLEAN, result : {None}]

\* BoolQuery(**args) is called: result holds the query built or the error raised
ConstructBoolQuery ==
    /\ bq # None
    /\ bq[1].result = None
    /\ bq' = Some([bq[1] EXCEPT !.result =
                     Some(BoolQuery(bq[1].must, bq[1].maybe, bq[1].must_not, bq[1].filter,
                                    bq[1].minimum_should_match, bq[1].acts_as_filter))])
    /\ UNCHANGED <<qs, searchCalls, countCalls, last, rset, appVars>>

InitBool ==
    /\ qs = <<NewQuerySet>>
    /\ searchCalls = <<0>>
    /\ countCalls = <<0>>
    /\ last = NoCall
    /\ \E args \in BoolArgs : bq = Some(args)
    /\ rset = None
    /\ bulk = None
    /\ threads = None
    /\ item = None
    /\ model = None

NextBool == ConstructBoolQuery

\* One BoolQuery construction, over every combination of its arguments.
SpecBool == InitBool /\ [][NextBool]_vars

\* ------------------------------------------------------------------ paging alone
MaxPage == 2

\* (page, page_size) of paginate and (start, end) of slice, valid and invalid
PagingArgs == {<<a, b>> : a \in (0 - 1)..MaxPage, b \in (0 - 1)..MaxPage}

\* paginate and slice, each call made on the QuerySet the call before returned
PaginateNext == \E p \in PagingArgs : Paginate(Len(qs), p)

SliceNext == \E p \in PagingArgs : Slice(Len(qs), p)

NextPaging == PaginateNext \/ SliceNext

\* Chains of paginate and slice calls over all small arguments.
SpecPaging == Init /\ [][NextPaging]_vars

\* ------------------------------------------------------------------ store errors
MaxRootCauses == 2

\* the error types __match_error tells apart, and one it does not
ErrorTypes ==
    {"index_not_found_exception", "document_missing_exception",
     "too_complex_to_determinize_exception", "parsing_exception"}

StatusCodes == {400, 404}

RootCauses == UNION {[1..n -> ErrorTypes] : n \in 0..MaxRootCauses}

MalformedShapes ==
    {"not_dict", "no_error_key", "error_not_dict", "no_root_cause", "root_cause_not_list"}

\* everything conn.search and conn.count may raise
AllStoreErrors ==
    {IOError}
    \cup {TransportError(shape, <<>>, status) : shape \in MalformedShapes, status \in StatusCodes}
    \cup {TransportError("root_cause", rc, status) : rc \in RootCauses, status \in StatusCodes}

ExecuteAny == \E i \in Instances : execute(i, Responses \cup AllStoreErrors)

CountAny == \E i \in Instances : count(i, CountResponses \cup AllStoreErrors)

\* paginate gives the compiled document, and so the request body, a "from" key
PaginateAny == \E i \in Instances, p \in PageInputs : Paginate(i, p)

NextStore == ExecuteAny \/ CountAny \/ PaginateAny

\* execute() and count() against a store that fails in every way it can.
SpecStore == Init /\ [][NextStore]_vars

\* ------------------------------------------------------------------ ResultSet alone
MaxHits == 2
MaxCalls == 3

\* hits as the store sends them: "_id" and "_score" always, "_source" and
\* "fields" as the request asked; a source field may be named "id" or
\* "_score", and a field may be in both sections
Hits ==
    {[_id |-> "1", _score |-> 1, _source |-> [name |-> "a"]],
     [_id |-> "1", _score |-> 1, _source |-> [name |-> "a", id |-> "2"]],
     [_id |-> "1", _score |-> 1, _source |-> [_score |-> 5]],
     [_id |-> "2", _score |-> 1, _source |-> [name |-> "a"], fields |-> [name |-> "b"]],
     [_id |-> "x", _score |-> 1, fields |-> [name |-> "b"]],
     [_id |-> "2", _score |-> 1]}

HitLists == UNION {[1..n -> Hits] : n \in 0..MaxHits}

\* hits.total: absent, a plain integer, or the object form
Totals ==
    {None, Some([int |-> 5]), Some([value |-> 5, relation |-> "eq"]),
     Some([value |-> 5, relation |-> "gte"])}

SearchResponses == {RawResponse(hits, total) : hits \in HitLists, total \in Totals}

Reconstructions == {"Result", "SuspendersModel", "Optional"}

ObjectCalls == {"as_objects", "documents", "__iter__"}

\* rset holds the ResultSet (self), the calls of type_from_fields made on each
\* hit (invoked), the number of calls made on the ResultSet (calls), the last
\* call with what it returned or raised (ret), and the list each call of
\* documents, as_objects() and iteration has returned, in order (returned)
Held(self, invoked, calls, op, raises, value, returned) ==
    Some([self |-> self, invoked |-> invoked, calls |-> calls,
          ret |-> [op |-> op, raises |-> raises, value |-> value],
          returned |-> returned])

\* ResultSet(response), as execute builds it, through an execute callback
Construct(responses) ==
    /\ rset = None
    /\ \E response \in responses, reconstruction \in Reconstructions :
         LET self == bound_execute_callback(ResultSet(response), reconstruction)
         IN rset' = Held(self, [k \in 1..Len(self._documents) |-> 0], 0,
                         "ResultSet", "", <<>>, <<>>)
    /\ UNCHANGED <<qs, searchCalls, countCalls, last, bq, appVars>>

\* a call of as_dict() on the ResultSet
AsDict ==
    /\ rset # None
    /\ rset[1].calls < MaxCalls
    /\ LET r == as_dict(rset[1].self)
       IN rset' = Held(r.self, rset[1].invoked, rset[1].calls + 1,
                       "as_dict", r.raises, r.value, rset[1].returned)
    /\ UNCHANGED <<qs, searchCalls, countCalls, last, bq, appVars>>

\* documents, as_objects() and iteration all go through as_objects()
ObjectCall(op) ==
    /\ rset # None
    /\ rset[1].calls < MaxCalls
    /\ LET r == as_objects(rset[1].self, rset[1].invoked)
       IN rset' = Held(r.self, r.invoked, rset[1].calls + 1, op, r.raises, r.value,
                       IF r.raises = "" THEN Append(rset[1].returned, r.value)
                       ELSE rset[1].returned)
    /\ UNCHANGED <<qs, searchCalls, countCalls, last, bq, appVars>>

AsObjects == ObjectCall("as_objects")
Documents == ObjectCall("documents")
Iterate == ObjectCall("__iter__")

NextResultSet ==
    \/ Construct(SearchResponses)
    \/ AsDict
    \/ AsObjects
    \/ Documents
    \/ Iterate

\* One ResultSet decoded from a search response, and the calls made on it.
SpecResultSet == Init /\ [][NextResultSet]_vars

\* ------------------------------------------------------------------ sampler
AggregationTerms == {"f", "g"}

Buckets == {<<>>, <<[key |-> "a", doc_count |-> 1]>>}

\* what the store answers for terms aggregations: a dict with its buckets for
\* each name
TermsResults ==
    UNION {[names -> [buckets : Buckets, sum_other_doc_count : {0}]] :
             names \in SUBSET AggregationTerms}

\* what the store answers for a sampler: its doc_count beside the results
SamplerResult(results) ==
    [n \in DOMAIN results \cup {"doc_count"} |->
       IF n = "doc_count" THEN [int |-> 3] ELSE results[n]]

\* responses with aggregations, as they are and inside the sampler
AggregationResponses ==
    {WithAggregations(RawResponse(<<>>, None), results) : results \in TermsResults}
    \cup {WithAggregations(RawResponse(<<>>, None), [__sampler__ |-> SamplerResult(results)]) :
            results \in TermsResults}

\* qs.aggregations_use_sampler = True: the public attribute is assigned
UseSampler(i) ==
    /\ ~qs[i].aggregations_use_sampler
    /\ qs' = [qs EXCEPT ![i].aggregations_use_sampler = TRUE]
    /\ last' = Returned("aggregations_use_sampler", i, <<>>, FALSE, None, "", None, i,
                        None, None, FALSE)
    /\ UNCHANGED <<searchCalls, countCalls, bq, rset, appVars>>

AggregationOf(i, term) ==
    Mutator("aggregation", i, <<term>>, FALSE, clone(i), aggregation(clone(i).self, term, 10))

NextSampler ==
    \/ \E i \in Instances, term \in AggregationTerms : AggregationOf(i, term)
    \/ \E i \in Instances : UseSampler(i)
    \/ Construct(AggregationResponses)

\* Aggregations requested with and without the sampler, and the decoding of
\* the responses to them.
SpecSampler == Init /\ [][NextSampler]_vars

\* ------------------------------------------------------------------ get
\* exceptions.py: the direct base classes of each exception class
Bases(cls) ==
    IF cls = "DocumentMissingException" THEN {"SearchError", "ObjectDoesNotExist"}
    ELSE IF cls \in {"TooComplexToDetermine", "IndexMissingException"} THEN {"SearchError"}
    ELSE IF cls \in {"UnknownError", "NoServerAvailable"} THEN {"UnformattedError"}
    ELSE IF cls \in {"ObjectDoesNotExist", "UnformattedError", "SearchError"}
    THEN {"SuspendersException"}
    ELSE IF cls = "InvalidQuerySet" THEN {"TypeError"}
    ELSE {}

\* issubclass(cls, base)
RECURSIVE IsSubclass(_, _)
IsSubclass(cls, base) == cls = base \/ \E b \in Bases(cls) : IsSubclass(b, base)

\* self.execute() of an instance, the store doing outcome if it is reached:
\* the ResultSet, None when the error handler returned, or the exception
executed(self, outcome) ==
    LET body == QuerySet_to_dict(self)
    IN IF execute_cached(self) THEN Ok(self._result_set)
       ELSE IF self._is_none_set THEN Ok(Some(empty_result_set))
       ELSE IF body.raises # "" THEN body
       ELSE raw_search(body.value, outcome)

\* whether that execute() reaches the store
reaches_store(self) ==
    ~execute_cached(self) /\ ~self._is_none_set /\ QuerySet_to_dict(self).raises = ""

\* result_set.documents[0]: documents is what as_objects() gave
first_document(documents) ==
    IF documents.raises # "" THEN Raise(documents.raises, "documents")
    ELSE IF documents.value = <<>> THEN Raise("IndexError", "documents")
    ELSE Ok(Some(documents.value[1]))

\* first(), result_set being what self.execute() gave: documents[0] when the
\* ResultSet has hits, None otherwise; len(None) is a TypeError and [][0] an
\* IndexError
first_of(result_set) ==
    IF result_set.raises # "" THEN result_set
    ELSE IF result_set.value = None THEN Raise("TypeError", "len")
    ELSE IF Len(result_set.value[1]._documents) > 0
    THEN first_document(as_objects(result_set.value[1],
                                   [k \in DOMAIN result_set.value[1]._documents |-> 0]))
    ELSE Ok(None)

\* SuspendersQuerySet.first
first(self, outcome) == first_of(executed(self, outcome))

\* get that hands back the None of first()
get_or_none(self, fl, debug, outcome) ==
    LET narrowed == filter(copy(self), fl, debug)
    IN IF narrowed.raises # "" THEN Raise(narrowed.raises, "filter")
       ELSE first(narrowed.self, outcome)

\* get(), narrowed being what self.filter(...) gave and result what first()
\* of it gave: ObjectDoesNotExist when that is None
get_of(narrowed, result) ==
    IF narrowed.raises # "" THEN Raise(narrowed.raises, "filter")
    ELSE IF result.raises # "" THEN result
    ELSE IF result.value = None THEN Raise("ObjectDoesNotExist", "")
    ELSE result

\* the QuerySet get() executes: self.filter(*args, **kwargs)
narrowed_by(self, fl, debug) == filter(copy(self), fl, debug)

\* SuspendersQuerySet.get: first() of self.filter(...), ObjectDoesNotExist
\* when that is None
get(self, fl, debug, outcome) ==
    get_of(narrowed_by(self, fl, debug), first(narrowed_by(self, fl, debug).self, outcome))

\* hits with all the store sends, and what the store may do on a get
GetHits ==
    {[_id |-> "1", _score |-> 2, _source |-> [name |-> "a"]],
     [_id |-> "2", _score |-> 1, _source |-> [name |-> "b"]]}

GetOutcomes ==
    {RawResponse(hits, None) : hits \in {<<>>} \cup {<<h>> : h \in GetHits}
                                          \cup {<<h, g>> : h, g \in GetHits}}
    \cup {IOError,
          TransportError("root_cause", <<"document_missing_exception">>, 404),
          TransportError("root_cause", <<>>, 400)}

\* what a call of get leaves in last: beside what every call leaves, the
\* document returned (doc) and the QuerySet that was executed (narrowed)
GetReturned(ret, narrowed, r) ==
    [k \in DOMAIN ret \cup {"doc", "narrowed"} |->
       IF k = "doc" THEN (IF r.raises = "" THEN r.value ELSE None)
       ELSE IF k = "narrowed" THEN narrowed.self
       ELSE IF k = "raises" THEN r.raises
       ELSE IF k = "logged" THEN narrowed.logged
       ELSE ret[k]]

\* the store is reached when the filter returned and execute() gets there
get_reaches_store(narrowed) == narrowed.raises = "" /\ reaches_store(narrowed.self)

\* a call of get on instance i
Get(i, fl, debug) ==
    \E outcome \in GetOutcomes :
        /\ last' = GetReturned(
                      Returned("get", i, fl, debug,
                               IF get_reaches_store(narrowed_by(qs[i], fl, debug))
                               THEN Some(outcome) ELSE None,
                               "", None, 0, None, None, FALSE),
                      narrowed_by(qs[i], fl, debug),
                      get(qs[i], fl, debug, outcome))
        /\ UNCHANGED <<qs, searchCalls, countCalls, bq, rset, appVars>>

\* filter, none and get, each called on the QuerySet made last
NextGet ==
    \/ \E fl \in FilterLists : Filter(Len(qs), fl, FALSE)
    \/ NoneSet(Len(qs))
    \/ \E fl \in FilterLists, debug \in BOOLEAN : Get(Len(qs), fl, debug)

\* get() on QuerySets narrowed by filters, some of them none-sets.
SpecGet == Init /\ [][NextGet]_vars

\* ------------------------------------------------------------------ BulkManager
MaxManagers == 2
MaxActions == 4
MaxFlushes == 2

Managers == 1..MaxManagers

\* chunk_size of a BulkManager: below the number of keys of every action, and
\* between the three keys of a delete and the four of an index (the default
\* is 500)
ChunkSizes == {1, 4}

\* BulkManager.index and BulkManager.delete: the action handed to append_action
IndexAction(id, doc, index) ==
    [_op_type |-> "index", _index |-> index, _id |-> id, _source |-> doc]
DeleteAction(id, index) == [_op_type |-> "delete", _index |-> index, _id |-> id]

\* self.actions of manager m: the attribute of the instance once flush has
\* assigned one, the list of the class (actions = []) until then
Actions(b, m) == IF b.own[m] # None THEN b.own[m][1] ELSE b.class_actions

\* self.actions.append(action): the list is changed in place
appended(b, m, action) ==
    IF b.own[m] # None
    THEN [b EXCEPT !.own[m] = Some(Append(@[1], action))]
    ELSE [b EXCEPT !.class_actions = Append(@, action)]

\* BulkManager.flush: bulk_helper is given self.actions; when it returns,
\* self.actions = [] gives the instance a list of its own; when it raises,
\* nothing is assigned
flush(b, m, ok) ==
    IF ok
    THEN [b EXCEPT !.sent = Append(@, [by |-> m, actions |-> Actions(b, m)]),
                   !.own[m] = Some(<<>>), !.raises = ""]
    ELSE [b EXCEPT !.raises = "ConnectionError", !.failed = TRUE]

\* BulkManager.append_action: "if len(action) >= self.chunk_size", the length
\* of the action, a dict, being the number of its keys
append_action(b, m, action, ok) ==
    IF Cardinality(DOMAIN action) >= b.chunk_size[m]
    THEN flush(appended(b, m, action), m, ok)
    ELSE [appended(b, m, action) EXCEPT !.raises = ""]

\* bulk holds the list of the class (class_actions), the list of each
\* instance (own), chunk_size of each instance, the batches bulk_helper was
\* given (sent), the manager through which each action was buffered, by _id
\* (issued), the explicit flush calls made (flushes), the last call (op, by)
\* with what it raised, and whether bulk_helper has ever raised (failed)
BulkCall(b, op, m) == Some([b EXCEPT !.op = op, !.by = m])

BulkIndex(m) ==
    /\ Len(bulk[1].issued) < MaxActions
    /\ \E ok \in BOOLEAN :
         LET id == Len(bulk[1].issued) + 1
             b == [bulk[1] EXCEPT !.issued = Append(@, m)]
         IN bulk' = BulkCall(append_action(b, m, IndexAction(id, [name |-> "a"], "docs"), ok),
                             "index", m)
    /\ UNCHANGED <<qs, searchCalls, countCalls, last, bq, rset, threads, item, model>>

BulkDelete(m) ==
    /\ Len(bulk[1].issued) < MaxActions
    /\ \E ok \in BOOLEAN :
         LET id == Len(bulk[1].issued) + 1
             b == [bulk[1] EXCEPT !.issued = Append(@, m)]
         IN bulk' = BulkCall(append_action(b, m, DeleteAction(id, "docs"), ok), "delete", m)
    /\ UNCHANGED <<qs, searchCalls, countCalls, last, bq, rset, threads, item, model>>

BulkFlush(m) ==
    /\ bulk[1].flushes < MaxFlushes
    /\ \E ok \in BOOLEAN :
         bulk' = BulkCall(flush([bulk[1] EXCEPT !.flushes = @ + 1], m, ok), "flush", m)
    /\ UNCHANGED <<qs, searchCalls, countCalls, last, bq, rset, threads, item, model>>

\* BulkManager(conn, chunk_size) for each manager: __init__ assigns conn and
\* chunk_size, and no list
InitBulk ==
    /\ qs = <<NewQuerySet>>
    /\ searchCalls = <<0>>
    /\ countCalls = <<0>>
    /\ last = NoCall
    /\ bq = None
    /\ rset = None
    /\ threads = None
    /\ item = None
    /\ model = None
    /\ \E sizes \in [Managers -> ChunkSizes] :
         bulk = Some([class_actions |-> <<>>, own |-> [m \in Managers |-> None],
                      chunk_size |-> sizes, sent |-> <<>>, issued |-> <<>>,
                      flushes |-> 0, op |-> "init", by |-> 0, raises |-> "",
                      failed |-> FALSE])

NextBulk ==
    \/ \E m \in Managers : BulkIndex(m)
    \/ \E m \in Managers : BulkDelete(m)
    \/ \E m \in Managers : BulkFlush(m)

\* index, delete and flush calls on the BulkManager instances of a process.
SpecBulk == InitBulk /\ [][NextBulk]_vars

\* ------------------------------------------------------------------ properties
ConstructionErrors == {"ValueError", "InvalidQuerySet"}

Compiles(self) == QuerySet_to_dict(self).raises = ""

\* C1: a call of any mutator leaves to_dict() of every instance that existed
\* before the call, the receiver included, exactly as it was, whether the
\* mutator returns or raises; and when it returns, the QuerySet returned is a
\* new instance, none of those that existed before.
C1_MutatorsCopyOnWrite ==
    [][last'.op \in MutatorNames =>
          /\ \A i \in Instances :
                /\ i <= Len(qs')
                /\ QuerySet_to_dict(qs'[i]) = QuerySet_to_dict(qs[i])
          /\ last'.raises = "" => (last'.obj \notin Instances /\ last'.obj <= Len(qs'))]_vars

\* a mutator returned an instance that compiles to something else than its receiver
C1_Witness ==
    /\ last.op \in MutatorNames
    /\ last.raises = ""
    /\ last.obj \in Instances
    /\ last.obj # last.self
    /\ QuerySet_to_dict(qs[last.obj]) # QuerySet_to_dict(qs[last.self])

\* C2 (as stated): whenever execute() returns on an instance that is not a
\* none-set, that instance has issued exactly one search call so far and the
\* value returned is the ResultSet cached on it.
C2_Original ==
    (last.op = "execute" /\ last.raises = "" /\ ~qs[last.self]._is_none_set) =>
        /\ searchCalls[last.self] = 1
        /\ last.rs # None
        /\ last.rs = qs[last.self]._result_set

\* C2 (amended): once an instance holds a cached ResultSet, no later step
\* changes the cache or issues another search from it, and every execute() on
\* it returns that same ResultSet; an execute() on an instance that is not a
\* none-set, compiles and has nothing cached issues exactly one search and
\* caches what the search handed back (nothing when the search raised or its
\* error was swallowed, so that the next execute() searches again).
C2_ExecuteCachesFirstResponse ==
    [][\A i \in Instances :
          /\ qs[i]._result_set # None =>
                /\ qs'[i]._result_set = qs[i]._result_set
                /\ searchCalls'[i] = searchCalls[i]
                /\ (last'.op = "execute" /\ last'.self = i) =>
                      (last'.raises = "" /\ last'.rs = qs[i]._result_set)
          /\ (/\ qs[i]._result_set = None
              /\ ~qs[i]._is_none_set
              /\ Compiles(qs[i])
              /\ last'.op = "execute"
              /\ last'.self = i) =>
                /\ searchCalls'[i] = searchCalls[i] + 1
                /\ qs'[i]._result_set = last'.rs]_vars

\* execute() returned the cached ResultSet of an instance whose first search failed
C2_Witness ==
    /\ last.op = "execute"
    /\ last.raises = ""
    /\ searchCalls[last.self] = 2
    /\ qs[last.self]._result_set # None
    /\ last.rs = qs[last.self]._result_set

C4_NoneSetShortCircuits ==
    /\ \A i \in Instances :
          qs[i]._is_none_set =>
              (searchCalls[i] = 0 /\ countCalls[i] = 0 /\ qs[i]._result_set = None)
    /\ (last.op = "execute" /\ qs[last.self]._is_none_set) =>
          /\ last.raises = ""
          /\ last.rs # None
          /\ last.rs[1]._documents = <<>>
          /\ last.rs[1].total = Some(0)
    /\ (last.op = "count" /\ qs[last.self]._is_none_set) =>
          (last.raises = "" /\ last.count = Some(0))
    /\ (last.op \in MutatorNames /\ last.raises = "" /\ qs[last.self]._is_none_set) =>
          qs[last.obj]._is_none_set

\* execute() on a filtered QuerySet derived from the result of none()
C4_Witness ==
    /\ Len(qs) = 3
    /\ qs[2]._is_none_set
    /\ ~has_values(qs[2]._filters)
    /\ qs[3]._is_none_set
    /\ has_values(qs[3]._filters)
    /\ last.op = "execute"
    /\ last.self = 3
    /\ last.rs # None

\* C5 (as stated): when a mutator has just returned q2 for a receiver that
\* holds a cached result, executing q2 issues a search of its own.
C5_Original ==
    [][(/\ last.op \in MutatorNames
        /\ last.raises = ""
        /\ qs[last.self]._result_set # None
        /\ last'.op = "execute"
        /\ last'.self = last.obj) =>
            searchCalls'[last.obj] = searchCalls[last.obj] + 1]_vars

\* C5 (amended): the QuerySet a mutator returns starts with no cached result
\* and no search issued, whatever its receiver has cached; executing it
\* issues a search of its own unless it is a none-set or does not compile, in
\* which case no search is issued; and an execute() never sets or changes the
\* cache of any instance other than the one it is called on.
C5_CachesDoNotLeak ==
    [][/\ (last'.op \in MutatorNames /\ last'.raises = "") =>
              /\ qs'[last'.obj]._result_set = None
              /\ searchCalls'[last'.obj] = 0
       /\ last'.op = "execute" =>
              LET i == last'.self
              IN /\ \A j \in Instances \ {i} :
                       /\ qs'[j] = qs[j]
                       /\ searchCalls'[j] = searchCalls[j]
                 /\ (qs[i]._result_set = None /\ ~qs[i]._is_none_set /\ Compiles(qs[i])) =>
                       searchCalls'[i] = searchCalls[i] + 1
                 /\ (qs[i]._result_set = None /\ (qs[i]._is_none_set \/ ~Compiles(qs[i]))) =>
                       (searchCalls' = searchCalls /\ qs' = qs)]_vars

\* a QuerySet derived from a cached receiver has cached a result of its own,
\* by a search of its own, and the receiver's cache is another ResultSet
C5_Witness ==
    /\ Len(qs) >= 2
    /\ last.op = "execute"
    /\ last.self = 2
    /\ qs[1]._result_set # None
    /\ qs[2]._result_set # None
    /\ qs[2]._result_set # qs[1]._result_set
    /\ searchCalls[1] = 1
    /\ searchCalls[2] = 1

\* the search bool, the filter bool and the query the four cases call for,
\* written out as the compiled document
SearchBoolDocument(self) ==
    LET must == self._must_search_set
        should == self._optional_search_set
        keys == (IF must # <<>> THEN {"must"} ELSE {})
                \cup (IF should # <<>> THEN {"should", "minimum_should_match"} ELSE {})
    IN [bool |-> [k \in keys |->
                    IF k = "must" THEN [n \in DOMAIN must |-> to_dict(must[n])]
                    ELSE IF k = "should" THEN [n \in DOMAIN should |-> to_dict(should[n])]
                    ELSE self.minimum_should_match]]

FilterBoolDocument(self) ==
    LET pos == positive_filters(self._filters)
        neg == negative_filters(self._filters)
        keys == (IF pos # <<>> THEN {"must"} ELSE {})
                \cup (IF neg # <<>> THEN {"must_not"} ELSE {})
    IN [bool |-> [k \in keys |->
                    IF k = "must" THEN [n \in DOMAIN pos |-> Filter_to_dict(pos[n])]
                    ELSE [n \in DOMAIN neg |-> Filter_to_dict(neg[n])]]]

ExpectedQuery(self) ==
    LET searches == self._must_search_set # <<>> \/ self._optional_search_set # <<>>
        filters == self._filters # <<>>
    IN IF ~searches /\ ~filters THEN [match_all |-> <<>>]
       ELSE IF ~searches THEN [constant_score |-> [filter |-> FilterBoolDocument(self)]]
       ELSE IF filters
       THEN [bool |-> [must |-> <<SearchBoolDocument(self)>>,
                       filter |-> FilterBoolDocument(self)]]
       ELSE SearchBoolDocument(self)

\* C6 (as stated): every QuerySet that is not a none-set compiles, and its
\* query is the one of the four forms its search queries and filters call for.
C6_Original ==
    \A i \in Instances :
        ~qs[i]._is_none_set =>
            /\ Compiles(qs[i])
            /\ QuerySet_to_dict(qs[i]).value.query = ExpectedQuery(qs[i])

\* C6 (amended): every QuerySet that is not a none-set and holds no suppress
\* (negative boost) query compiles, and its query is match_all without search
\* queries and filters, a constant_score around the filter bool with filters
\* only, the search bool with search queries only, and with both an outer bool
\* whose must holds exactly the search bool and whose filter holds the filter
\* bool.
C6_ContextSelection ==
    \A i \in Instances :
        (~qs[i]._is_none_set /\ qs[i]._negative_boost_queries = <<>>) =>
            /\ Compiles(qs[i])
            /\ QuerySet_to_dict(qs[i]).value.query = ExpectedQuery(qs[i])

\* three of the forms are held at once: match_all, search only, and both
C6_Witness ==
    /\ Len(qs) = 3
    /\ QuerySet_to_dict(qs[1]).value.query = [match_all |-> <<>>]
    /\ qs[2]._must_search_set # <<>>
    /\ qs[2]._filters = <<>>
    /\ qs[3]._must_search_set # <<>>
    /\ negative_filters(qs[3]._filters) # <<>>
    /\ qs[3]._negative_boost_queries = <<>>
    /\ "filter" \in DOMAIN QuerySet_to_dict(qs[3]).value.query.bool

\* C7: no QuerySet the builder calls have returned raises a query-construction
\* error (ValueError or InvalidQuerySet of an invalid clause combination) from
\* to_dict(), and neither execute() nor count() ends with one.
C7_NoDeferredConstructionError ==
    /\ \A i \in Instances : QuerySet_to_dict(qs[i]).raises \notin ConstructionErrors
    /\ last.op \in {"execute", "count"} => last.raises \notin ConstructionErrors

\* a QuerySet holding nothing but an exclude filter was executed and answered
C7_Witness ==
    /\ last.op = "execute"
    /\ last.raises = ""
    /\ last.rs # None
    /\ qs[last.self]._must_search_set = <<>>
    /\ qs[last.self]._optional_search_set = <<>>
    /\ positive_filters(qs[last.self]._filters) = <<>>
    /\ negative_filters(qs[last.self]._filters) # <<>>

Constructed == bq # None /\ bq[1].result # None

NoClauses(args) == args.must = <<>> /\ args.maybe = <<>> /\ args.must_not = <<>>

MustNotOnly(args) == args.must = <<>> /\ args.maybe = <<>> /\ args.must_not # <<>>

\* C8 (as stated): a BoolQuery without any clause fails as an empty boolean
\* query, one with must_not clauses only and acts_as_filter false fails as
\* must-not-only, and one with must_not clauses only and acts_as_filter true
\* is accepted, whatever minimum_should_match is.
C8_Original ==
    Constructed =>
        LET args == bq[1]
            res == args.result[1]
        IN /\ NoClauses(args) =>
                (res.raises = "InvalidQuerySet" /\ res.msg = "empty boolean query")
           /\ (MustNotOnly(args) /\ ~args.acts_as_filter) =>
                (res.raises = "InvalidQuerySet" /\ res.msg = "must_not only")
           /\ (MustNotOnly(args) /\ args.acts_as_filter) => res.raises = ""

\* C8 (amended): with minimum_should_match unset (None or 0), a BoolQuery
\* without any clause fails as an empty boolean query, one with must_not
\* clauses only and acts_as_filter false fails as must-not-only, and one with
\* must_not clauses only and acts_as_filter true is accepted.
C8_ClauseValidation ==
    (Constructed /\ ~Truthy(bq[1].minimum_should_match)) =>
        LET args == bq[1]
            res == args.result[1]
        IN /\ NoClauses(args) =>
                (res.raises = "InvalidQuerySet" /\ res.msg = "empty boolean query")
           /\ (MustNotOnly(args) /\ ~args.acts_as_filter) =>
                (res.raises = "InvalidQuerySet" /\ res.msg = "must_not only")
           /\ (MustNotOnly(args) /\ args.acts_as_filter) => res.raises = ""

\* a must_not-only BoolQuery with acts_as_filter true was built
C8_Witness ==
    /\ Constructed
    /\ MustNotOnly(bq[1])
    /\ bq[1].acts_as_filter
    /\ bq[1].minimum_should_match = None
    /\ bq[1].result[1].raises = ""

\* C9 (as stated): a BoolQuery with minimum_should_match set to any integer
\* and no should clause fails, and one with a should clause is built.
C9_Original ==
    Constructed =>
        LET args == bq[1]
            res == args.result[1]
        IN /\ (args.minimum_should_match # None /\ args.maybe = <<>>) => res.raises # ""
           /\ args.maybe # <<>> => res.raises = ""

\* C9 (amended): a BoolQuery with minimum_should_match set to any integer
\* other than 0 and no should clause fails with ValueError, and one with a
\* should clause is built.
C9_MinimumShouldMatch ==
    Constructed =>
        LET args == bq[1]
            res == args.result[1]
        IN /\ (Truthy(args.minimum_should_match) /\ args.maybe = <<>>) =>
                res.raises = "ValueError"
           /\ args.maybe # <<>> => res.raises = ""

\* minimum_should_match 2 on a BoolQuery with a must clause and no should clause
C9_Witness ==
    /\ Constructed
    /\ bq[1].minimum_should_match = Some(2)
    /\ bq[1].must # <<>>
    /\ bq[1].maybe = <<>>
    /\ bq[1].result[1].raises = "ValueError"

\* the terms clauses on a field among the must clauses of the filter bool
TermsClauses(self, name) ==
    LET must == to_dict(filter_context(self).value).bool.must
    IN {n \in DOMAIN must : must[n].clause = "terms" /\ must[n].field = name}

\* C10: when filter() is given an `in` filter with value set B on a field for
\* which the receiver holds a positive `in` filter with value set A, the
\* QuerySet returned holds as many filter entries as the receiver, the entry
\* of that field holds the union of A and B, and the filter bool compiles to
\* exactly one terms clause on the field, whose value set is that union.
C10_InFiltersMerge ==
    [][(/\ last'.op = "filter"
        /\ last'.raises = ""
        /\ last'.args[1].kind = "in"
        /\ HasKey(qs[last'.self]._filters, FilterKey("+", last'.args[1].name))) =>
            LET given == last'.args[1]
                key == FilterKey("+", given.name)
                before == qs[last'.self]._filters
                after == qs'[last'.obj]._filters
                union == Lookup(before, key).filter.value \cup given.value
            IN /\ Len(after) = Len(before)
               /\ Cardinality({n \in DOMAIN after : after[n].key = key}) = 1
               /\ Lookup(after, key).filter.value = union
               /\ Cardinality(TermsClauses(qs'[last'.obj], given.name)) = 1
               /\ \A n \in TermsClauses(qs'[last'.obj], given.name) :
                     to_dict(filter_context(qs'[last'.obj]).value).bool.must[n].value
                        = union]_vars

\* filter(f__in={1}).filter(f__in={2}) returned a QuerySet holding one entry, {1, 2}
C10_Witness ==
    /\ last.op = "filter"
    /\ last.raises = ""
    /\ last.args[1].kind = "in"
    /\ Len(qs[last.obj]._filters) = 1
    /\ HasKey(qs[last.obj]._filters, FilterKey("+", "f"))
    /\ Lookup(qs[last.obj]._filters, FilterKey("+", "f")).filter.value = {1, 2}
    /\ Cardinality(TermsClauses(qs[last.obj], "f")) = 1

\* the key add_positive ("+") and add_negative ("-") store a filter under
KeyOf(type, given) ==
    IF given.is_multi THEN FilterKey(type, given.name) ELSE FilterKey("", given.name)

C12_Paginate ==
    [][last'.op = "paginate" =>
          LET page == last'.args[1]
              page_size == last'.args[2]
              offset == (page - 1) * page_size
          IN IF page >= 1 /\ page_size >= 1
             THEN /\ last'.raises = ""
                  /\ LET doc == QuerySet_to_dict(qs'[last'.obj]).value
                     IN /\ doc.size = page_size
                        /\ IF offset = 0 THEN "from" \notin DOMAIN doc
                           ELSE doc.from = offset
             ELSE last'.raises = "ValueError" /\ qs' = qs]_vars

\* paginate(2, 2) on a QuerySet with from 1 and size 1 compiles to from 2, size 2
C12_Witness ==
    /\ last.op = "paginate"
    /\ last.args = <<2, 2>>
    /\ last.raises = ""
    /\ qs[last.self]._page_size = 1
    /\ qs[last.self]._from = 1
    /\ QuerySet_to_dict(qs[last.obj]).value.size = 2
    /\ "from" \in DOMAIN QuerySet_to_dict(qs[last.obj]).value
    /\ QuerySet_to_dict(qs[last.obj]).value.from = 2

\* C13: slice(start, end) with 0 <= start < end returns a QuerySet whose
\* compiled document has size end - start, at least 1, and from start (left
\* out when start is 0); with start < 0, start > end or end - start < 1 it
\* raises ValueError and returns nothing.
C13_Slice ==
    [][last'.op = "slice" =>
          LET start == last'.args[1]
              end == last'.args[2]
          IN IF 0 <= start /\ start < end
             THEN /\ last'.raises = ""
                  /\ LET doc == QuerySet_to_dict(qs'[last'.obj]).value
                     IN /\ doc.size = end - start
                        /\ doc.size >= 1
                        /\ IF start = 0 THEN "from" \notin DOMAIN doc
                           ELSE doc.from = start
             ELSE last'.raises = "ValueError" /\ qs' = qs]_vars

\* slice(1, 1) was refused after slice(0, 2) had returned a QuerySet of size 2
C13_Witness ==
    /\ last.op = "slice"
    /\ last.args = <<1, 1>>
    /\ last.raises = "ValueError"
    /\ Len(qs) = 2
    /\ QuerySet_to_dict(qs[2]).value.size = 2
    /\ "from" \notin DOMAIN QuerySet_to_dict(qs[2]).value

Taxonomy ==
    {"NoServerAvailable", "IndexMissingException", "DocumentMissingException",
     "TooComplexToDetermine", "SearchError", "UnknownError"}

\* the store call of the last call raised
StoreFailed == last.store # None /\ "exc" \in DOMAIN last.store[1]

\* the last call was a store call that raised a TransportError of that shape
FailedWith(shapes) ==
    /\ StoreFailed
    /\ last.store[1].exc = "TransportError"
    /\ last.store[1].shape \in shapes

ClassOfType(type) ==
    CASE type = "index_not_found_exception" -> "IndexMissingException"
      [] type = "document_missing_exception" -> "DocumentMissingException"
      [] type = "too_complex_to_determinize_exception" -> "TooComplexToDetermine"
      [] OTHER -> "SearchError"

\* the request body of the last call: the compiled document for execute(),
\* its "query" and "from" for count()
RequestBody ==
    IF last.op = "execute" THEN QuerySet_to_dict(qs[last.self]).value
    ELSE count_body(QuerySet_to_dict(qs[last.self]).value)

\* C15 (as stated): an execute() or count() whose store call failed with a
\* non-empty root_cause list raised the class of the root cause type, and the
\* exception carries the status and the request body.
C15_Original ==
    (FailedWith({"root_cause"}) /\ last.store[1].root_cause # <<>>) =>
        /\ last.raises = ClassOfType(last.store[1].root_cause[1])
        /\ last.exc[1].status = last.store[1].status
        /\ last.exc[1].request_body = RequestBody

\* C15 (amended): an execute() or count() whose store call failed with a
\* non-empty root_cause list raised the class of the type of the first root
\* cause (IndexMissingException, DocumentMissingException,
\* TooComplexToDetermine, else SearchError); the exception carries that root
\* cause, the status and, for execute(), the request body; for count() it
\* carries the label "COUNT <indexes>" in place of the request body.
C15_RootCauseClass ==
    (FailedWith({"root_cause"}) /\ last.store[1].root_cause # <<>>) =>
        /\ last.raises = ClassOfType(last.store[1].root_cause[1])
        /\ last.exc[1].error = [type |-> last.store[1].root_cause[1]]
        /\ last.exc[1].status = last.store[1].status
        /\ last.exc[1].request_body =
              IF last.op = "execute" THEN RequestBody ELSE CountLabel(None)

\* count() failed with a determinization error behind a second root cause
C15_Witness ==
    /\ last.op = "count"
    /\ FailedWith({"root_cause"})
    /\ Len(last.store[1].root_cause) = 2
    /\ last.store[1].root_cause[2] = "index_not_found_exception"
    /\ last.raises = "TooComplexToDetermine"
    /\ last.exc[1].status = 400
    /\ last.exc[1].request_body = CountLabel(None)

C17_TotalDecoding ==
    rset # None =>
        LET self == rset[1].self
            hits == self._raw.hits
        IN IF "total" \notin DOMAIN hits THEN self.total = None
           ELSE IF "int" \in DOMAIN hits.total
           THEN self.total = Some(hits.total.int) /\ self.total_relation = "eq"
           ELSE /\ self.total = Some(hits.total.value)
                /\ self.total_relation = hits.total.relation

\* a response whose total is the object form with relation "gte" was decoded
C17_Witness ==
    /\ rset # None
    /\ "total" \in DOMAIN rset[1].self._raw.hits
    /\ rset[1].self._raw.hits.total = [value |-> 5, relation |-> "gte"]
    /\ rset[1].self.total = Some(5)
    /\ rset[1].self.total_relation = "gte"

\* ------------------------------------------------------------------ C18
\* as_dict() has just returned its list of dictionaries
AsDictReturned == rset # None /\ rset[1].ret.op = "as_dict" /\ rset[1].ret.raises = ""

\* C18 as stated: for every hit, the dictionary of as_dict() maps every key of
\* the hit's _source section and of its fields section to the value the
\* section holds, and maps id to the hit's identifier.
C18_Original ==
    AsDictReturned =>
        \A k \in DOMAIN rset[1].self._documents :
            LET doc == rset[1].self._documents[k]
                d == rset[1].ret.value[k]
                source == Section(doc, "_source")
                fields == Section(doc, "fields")
            IN /\ \A key \in DOMAIN source : key \in DOMAIN d /\ d[key] = source[key]
               /\ \A key \in DOMAIN fields : key \in DOMAIN d /\ d[key] = fields[key]
               /\ d.id = doc._id

\* C18: for every hit, the dictionary of as_dict() has every key of the hit's
\* _source and fields sections, and id and _score; a key other than id and
\* _score is mapped to the value fields holds when fields has the key and to
\* the value _source holds otherwise; id is the hit's identifier and _score
\* the hit's score, whatever the sections hold under those two names.
C18_AsDictRoundTrip ==
    AsDictReturned =>
        \A k \in DOMAIN rset[1].self._documents :
            LET doc == rset[1].self._documents[k]
                d == rset[1].ret.value[k]
                source == Section(doc, "_source")
                fields == Section(doc, "fields")
            IN /\ DOMAIN d = DOMAIN source \cup DOMAIN fields \cup {"id", "_score"}
               /\ \A key \in DOMAIN d \ {"id", "_score"} :
                     d[key] = IF key \in DOMAIN fields THEN fields[key] ELSE source[key]
               /\ d.id = doc._id
               /\ d._score = doc._score

\* as_dict() returned the dictionaries of two hits, the first with a source
\* field named id that differs from the identifier, the second with a field
\* that is in both sections
C18_Witness ==
    /\ AsDictReturned
    /\ Len(rset[1].self._documents) = 2
    /\ rset[1].self._documents[1] = [_id |-> "1", _score |-> 1, _source |-> [name |-> "a", id |-> "2"]]
    /\ rset[1].ret.value[1] = [name |-> "a", id |-> "1", _score |-> 1]
    /\ "fields" \in DOMAIN rset[1].self._documents[2]
    /\ "_source" \in DOMAIN rset[1].self._documents[2]
    /\ rset[1].ret.value[2] = [name |-> "b", id |-> "2", _score |-> 1]

\* ------------------------------------------------------------------ C19
\* every call of documents, as_objects() and iteration so far returned the
\* same list
SameList(held) ==
    \A a, b \in DOMAIN held.returned : held.returned[a] = held.returned[b]

\* C19 as stated: over any number of calls of documents, as_objects() and
\* iteration on one ResultSet, the reconstruction function is invoked at most
\* once per hit and every call returns the same list.
C19_Original ==
    rset # None =>
        /\ \A k \in DOMAIN rset[1].invoked : rset[1].invoked[k] <= 1
        /\ SameList(rset[1])

\* C19: object materialization is cached once it has produced at least one
\* object: from then on no call of documents, as_objects() or iteration
\* invokes the reconstruction function, which has been invoked exactly once
\* per hit, and each of them returns the cached list.  While no object has
\* been produced (no hits, a reconstruction that raised, or only falsy
\* objects) nothing is cached, and each such call on a ResultSet with hits
\* invokes the reconstruction function again; the lists returned are equal
\* all the same.
C19_MaterializationCached ==
    [][(rset # None /\ rset' # None) =>
         LET before == rset[1]
             after == rset'[1]
         IN /\ NonEmpty(before.self._objects) =>
                 /\ after.invoked = before.invoked
                 /\ after.self._objects = before.self._objects
                 /\ after.ret.op \in ObjectCalls =>
                       after.ret.raises = "" /\ after.ret.value = before.self._objects
            /\ NonEmpty(after.self._objects) =>
                 \A k \in DOMAIN after.invoked : after.invoked[k] = 1
            /\ (after.ret.op \in ObjectCalls /\ ~NonEmpty(before.self._objects)
                   /\ NonEmpty(before.self._documents)) =>
                 after.invoked[1] = before.invoked[1] + 1
            /\ SameList(after)]_vars

\* three calls, one of each kind, returned the two objects of a ResultSet of
\* two hits, and the reconstruction function ran once on each hit
C19_Witness ==
    /\ rset # None
    /\ Len(rset[1].self._documents) = 2
    /\ Len(rset[1].returned) = 3
    /\ rset[1].ret.op = "__iter__"
    /\ Len(rset[1].ret.value) = 2
    /\ rset[1].invoked = <<1, 1>>

\* ------------------------------------------------------------------ C20
\* the results of a sampler that are aggregations: all but its doc_count
SampledResults(sampler) ==
    [n \in {m \in DOMAIN sampler : "buckets" \in DOMAIN sampler[m]} |-> sampler[n]]

\* C20: with the sampler flag set, to_dict() nests all requested aggregations
\* under the reserved __sampler__ key; and a response whose aggregations are
\* nested under __sampler__ decodes to the name-to-buckets mapping of the
\* response that holds the same aggregations unwrapped, with no entry for the
\* sampler itself or for its doc_count.
C20_SamplerTransparent ==
    /\ \A i \in Instances :
          (qs[i].aggregations_use_sampler /\ NonEmpty(qs[i]._aggs_fields)
              /\ ~qs[i]._is_none_set /\ Compiles(qs[i])) =>
            LET document == QuerySet_to_dict(qs[i]).value
            IN /\ "aggregations" \in DOMAIN document
               /\ DOMAIN document.aggregations = {"__sampler__"}
               /\ document.aggregations.__sampler__.aggs = serialized_aggregations(qs[i])
               /\ \A k \in DOMAIN qs[i]._aggs_fields :
                     qs[i]._aggs_fields[k].name
                        \in DOMAIN document.aggregations.__sampler__.aggs
    /\ (rset # None /\ "aggregations" \in DOMAIN rset[1].self._raw
           /\ "__sampler__" \in DOMAIN rset[1].self._raw.aggregations) =>
          LET raw == rset[1].self._raw
              results == SampledResults(raw.aggregations.__sampler__)
              decoded == rset[1].self.aggregations
          IN /\ decoded = ResultSet(WithAggregations(raw, results)).aggregations
             /\ decoded = [n \in DOMAIN results |-> results[n].buckets]
             /\ "__sampler__" \notin DOMAIN decoded
             /\ "doc_count" \notin DOMAIN decoded

\* a QuerySet with the flag set and two aggregations, and a ResultSet decoded
\* from a sampler response holding the results of both
C20_Witness ==
    /\ \E i \in Instances :
          /\ qs[i].aggregations_use_sampler
          /\ Len(qs[i]._aggs_fields) = 2
          /\ DOMAIN QuerySet_to_dict(qs[i]).value.aggregations.__sampler__.aggs = {"f", "g"}
    /\ rset # None
    /\ "aggregations" \in DOMAIN rset[1].self._raw
    /\ "__sampler__" \in DOMAIN rset[1].self._raw.aggregations
    /\ DOMAIN rset[1].self._raw.aggregations.__sampler__ = {"doc_count", "f", "g"}
    /\ DOMAIN rset[1].self.aggregations = {"f", "g"}
    /\ rset[1].self.aggregations.f = <<[key |-> "a", doc_count |-> 1]>>

\* ------------------------------------------------------------------ C21
\* get was called and its filters were accepted
GetCalled == last.op = "get" /\ last.raises # "ValueError"

\* the QuerySet get executed yields no document: it is a none-set, or the
\* store answered with no hits
YieldsNothing ==
    /\ GetCalled
    /\ \/ last.narrowed._is_none_set
       \/ /\ last.store # None
          /\ "hits" \in DOMAIN last.store[1]
          /\ last.store[1].hits.hits = <<>>

\* the store answered the QuerySet get executed with at least one hit
YieldsHits ==
    /\ GetCalled
    /\ last.store # None
    /\ "hits" \in DOMAIN last.store[1]
    /\ last.store[1].hits.hits # <<>>

\* C21: get(**filters) executes the QuerySet narrowed by the filters and
\* returns its first document; it raises ObjectDoesNotExist whenever that
\* QuerySet yields no document; it never returns None; and the error it
\* raises then is not the engine's DocumentMissingException, nor an instance
\* of it.
C21_GetFirstOrRaise ==
    /\ GetCalled =>
          /\ last.narrowed = filter(copy(qs[last.self]), last.args, last.debug).self
          /\ last.raises = "" => last.doc # None
    /\ YieldsHits =>
          /\ last.raises = ""
          /\ last.doc = Some(Result(clean_doc(last.store[1].hits.hits[1]).value))
    /\ YieldsNothing =>
          /\ last.raises = "ObjectDoesNotExist"
          /\ ~IsSubclass(last.raises, "DocumentMissingException")
    /\ (GetCalled /\ last.store # None /\ "exc" \in DOMAIN last.store[1]
           /\ last.store[1].exc = "TransportError"
           /\ last.store[1].root_cause = <<"document_missing_exception">>) =>
          last.raises = "DocumentMissingException"

\* get raised ObjectDoesNotExist on a QuerySet, narrowed by one more filter,
\* that the store answered with no hits
C21_Witness ==
    /\ YieldsNothing
    /\ last.store # None
    /\ last.raises = "ObjectDoesNotExist"
    /\ HasKey(last.narrowed._filters, FilterKey("+", "f"))

\* ------------------------------------------------------------------ C22
\* the actions in the buffer of manager m that were buffered through m
OwnBuffered(b, m) == {k \in DOMAIN Actions(b, m) : b.issued[Actions(b, m)[k]._id] = m}

\* C22: after any sequence of index and delete calls the buffer of a
\* BulkManager holds fewer than chunk_size actions of its own, the buffer being
\* flushed when their number reaches chunk_size; and a flush
\* that returns has sent all buffered actions in one batch and left the
\* buffer empty.  (Stated for a store that has accepted every batch.)
C22_Original ==
    (bulk # None /\ ~bulk[1].failed) =>
        /\ \A m \in Managers : Cardinality(OwnBuffered(bulk[1], m)) < bulk[1].chunk_size[m]
        /\ (bulk[1].op = "flush" /\ bulk[1].raises = "") =>
              /\ Actions(bulk[1], bulk[1].by) = <<>>
              /\ bulk[1].sent[Len(bulk[1].sent)].by = bulk[1].by

\* the buffer of a manager whose chunk_size is 4 holds four actions, all
\* buffered through it and none of them sent
C22_Witness ==
    /\ bulk # None
    /\ ~bulk[1].failed
    /\ bulk[1].sent = <<>>
    /\ \E m \in Managers :
          /\ bulk[1].chunk_size[m] = 4
          /\ Len(Actions(bulk[1], m)) = 4
          /\ Len(bulk[1].issued) = 4
          /\ \A k \in 1..4 : bulk[1].issued[k] = m

\* ------------------------------------------------------------------ C28
\* the _id of every action of a list
Ids(actions) == {actions[k]._id : k \in DOMAIN actions}

\* C28: an action buffered through one BulkManager is never in the buffer of
\* another BulkManager, nor in a batch another BulkManager sends, and no
\* action is sent by more than one flush.  (Stated for a store that has
\* accepted every batch.)
C28_Original ==
    (bulk # None /\ ~bulk[1].failed) =>
        /\ \A m \in Managers : \A id \in Ids(Actions(bulk[1], m)) : bulk[1].issued[id] = m
        /\ \A k \in DOMAIN bulk[1].sent :
              \A id \in Ids(bulk[1].sent[k].actions) : bulk[1].issued[id] = bulk[1].sent[k].by
        /\ \A j, k \in DOMAIN bulk[1].sent :
              j # k => Ids(bulk[1].sent[j].actions) \cap Ids(bulk[1].sent[k].actions) = {}

\* an action buffered through one manager was sent by a flush of the other
\* manager and then again by a flush of its own
C28_Witness ==
    /\ bulk # None
    /\ ~bulk[1].failed
    /\ Len(bulk[1].sent) = 2
    /\ bulk[1].sent[1].by # bulk[1].sent[2].by
    /\ bulk[1].issued # <<>>
    /\ bulk[1].issued[1] = bulk[1].sent[2].by
    /\ 1 \in Ids(bulk[1].sent[1].actions)
    /\ 1 \in Ids(bulk[1].sent[2].actions)

\* ------------------------------------------------------------------ SuspendersModel
\* A map that declares id, title and two complex fields.  A complex field is
\* a BaseMap instance: a SuspendersModel of its own (one that declares no
\* complex field), or a plain BaseMap, which has no type_from_fields.
ComplexFieldNames == {"author", "editor"}
FieldKinds == {"SuspendersModel", "BaseMap"}

\* raw values of a document: None, a string, a dict, a list of dicts
RawNone == [t |-> "None"]
RawStr == [t |-> "str", s |-> "s"]
RawDict(d) == [t |-> "dict", d |-> d]
RawList(l) == [t |-> "list", l |-> l]

\* nested documents: a good one, one whose id is no integer literal, one
\* whose id is None, one with no id
GoodDict == [id |-> Some("1"), name |-> "n"]
NestedDicts ==
    {GoodDict, [id |-> Some("x"), name |-> "n"], [id |-> None, name |-> "n"], [name |-> "n"]}
RawValues ==
    {RawNone, RawStr} \cup {RawDict(d) : d \in NestedDicts}
        \cup {RawList(<<d>>) : d \in NestedDicts}
        \cup {RawList(<<GoodDict, d>>) : d \in NestedDicts}

\* int(s) of a one-digit literal
IntOf(s) == CHOOSE n \in 0..9 : ToString(n) = s

\* process_load_fields: load_fields["id"] = int(load_fields["id"])
process_load_fields(load_fields) ==
    IF "id" \notin DOMAIN load_fields THEN Raise("KeyError", "id")
    ELSE IF load_fields.id = None THEN Raise("TypeError", "int")
    ELSE IF load_fields.id[1] \notin IntLiterals THEN Raise("ValueError", load_fields.id[1])
    ELSE Ok([key \in DOMAIN load_fields |->
               IF key = "id" THEN [int |-> IntOf(load_fields.id[1])] ELSE load_fields[key]])

\* type_from_fields of a SuspendersModel that declares no complex field;
\* base.items() needs a dict
nested_type_from_fields(raw) ==
    IF raw.t # "dict" THEN Raise("AttributeError", "items")
    ELSE LET loaded == process_load_fields(raw.d)
         IN IF loaded.raises # "" THEN loaded
            ELSE Ok([class |-> "Model", attributes |-> loaded.value,
                     relations |-> <<>>, search_results |-> raw.d])

\* field.type_from_fields(value, base)
field_type_from_fields(kind, raw) ==
    IF kind = "BaseMap" THEN Raise("AttributeError", "type_from_fields")
    ELSE nested_type_from_fields(raw)

\* the body of the try block: the value "rel" of one complex field
rel_of(kind, raw) ==
    IF raw.t = "list"
    THEN LET outs == [k \in DOMAIN raw.l |-> field_type_from_fields(kind, RawDict(raw.l[k]))]
             failed == {k \in DOMAIN raw.l : outs[k].raises # ""}
         IN IF failed # {}
            THEN outs[CHOOSE k \in failed : \A j \in failed : k <= j]
            ELSE Ok([t |-> "objects", l |-> [k \in DOMAIN raw.l |-> outs[k].value]])
    ELSE IF raw.t = "None" THEN Ok(RawNone)
    ELSE LET out == field_type_from_fields(kind, raw)
         IN IF out.raises # "" THEN out ELSE Ok([t |-> "object", o |-> out.value])

\* the exceptions the except clause catches
caught_any(raises) == raises # ""

caught(raises) == raises \in {"AttributeError", "TypeError"}

\* the loop over complex_field_names, in the order the set yields them;
\* acc is [raises, processed, relations, logged]
RECURSIVE decode_fields(_, _, _, _, _)
decode_fields(self, base, debug, order, acc) ==
    IF order = <<>> THEN acc
    ELSE LET field_name == Head(order)
             rel == rel_of(self.fields[field_name], base[field_name])
         IN IF field_name \notin DOMAIN base
            THEN decode_fields(self, base, debug, Tail(order), acc)
            ELSE IF rel.raises = ""
            THEN decode_fields(self, base, debug, Tail(order),
                    [acc EXCEPT
                       !.processed = [key \in DOMAIN @ |->
                                        IF key = field_name THEN rel.value ELSE @[key]],
                       !.relations = IF field_name \in self.foreign_keys
                                     THEN @ \cup {field_name} ELSE @])
            ELSE IF caught(rel.raises) /\ ~debug
            THEN decode_fields(self, base, debug, Tail(order),
                    [acc EXCEPT !.logged = Append(@,
                        [level |-> "ERROR", msg |-> "Could not decode",
                         field |-> field_name, exc_info |-> rel.raises])])
            ELSE [acc EXCEPT !.raises = rel.raises]

\* SuspendersModel.type_from_fields(base): [raises, logged] or
\* [raises |-> "", value, logged]; relations are the complex fields set on
\* the object as attributes
SuspendersModel_type_from_fields(self, base, debug, order) ==
    LET load_fields == [key \in DOMAIN base \ ComplexFieldNames |-> base[key]]
        loaded == process_load_fields(load_fields)
        acc == decode_fields(self, base, debug, order,
                   [raises |-> "", processed |-> base, relations |-> {}, logged |-> <<>>])
    IN IF loaded.raises # "" THEN [raises |-> loaded.raises, logged |-> <<>>]
       ELSE IF acc.raises # "" THEN [raises |-> acc.raises, logged |-> acc.logged]
       ELSE [raises |-> "", logged |-> acc.logged,
             value |-> [class |-> "Model", attributes |-> loaded.value,
                        relations |-> acc.relations, search_results |-> acc.processed]]

\* documents of the parent map: id and title, each complex field present or not
ModelDocuments ==
    {[key \in {"id", "title"} \cup present |->
        IF key = "id" THEN id ELSE IF key = "title" THEN Some("t")
        ELSE IF key = "author" THEN a ELSE e] :
       id \in {Some("1"), Some("x")}, a \in RawValues, e \in {RawNone, RawStr, RawDict(GoodDict)},
       present \in SUBSET ComplexFieldNames}

\* the two orders in which the set complex_field_names can be iterated
FieldOrders == {<<"author", "editor">>, <<"editor", "author">>}

\* one call of map.type_from_fields(base) under settings.DEBUG = debug
Reconstruct(kinds, fks, base, debug, order) ==
    /\ model = None
    /\ model' = Some([self |-> [fields |-> kinds, foreign_keys |-> fks],
                      base |-> base, debug |-> debug,
                      out |-> SuspendersModel_type_from_fields(
                                 [fields |-> kinds, foreign_keys |-> fks], base, debug, order)])
    /\ UNCHANGED <<qs, searchCalls, countCalls, last, bq, rset, bulk, threads, item>>

NextModel ==
    \E kinds \in [ComplexFieldNames -> FieldKinds], fks \in SUBSET ComplexFieldNames,
       base \in ModelDocuments, debug \in BOOLEAN, order \in FieldOrders :
        Reconstruct(kinds, fks, base, debug, order)

SpecModel == Init /\ [][NextModel]_vars

\* ------------------------------------------------------------------ C23
\* the reconstruction of complex field f of the document fails
FieldFails(f) ==
    /\ f \in DOMAIN model[1].base
    /\ rel_of(model[1].self.fields[f], model[1].base[f]).raises # ""

\* the document itself is sound and exactly one of its complex fields fails
OneFieldFails(f) ==
    /\ model # None
    /\ model[1].base.id = Some("1")
    /\ FieldFails(f)
    /\ \A g \in ComplexFieldNames \ {f} : ~FieldFails(g)

\* C23 as stated: when one complex field fails, permissive mode yields the
\* parent object with the field left out of search_results and a record
\* logged; debug mode raises the failure.
C23_Original ==
    \A f \in ComplexFieldNames :
        OneFieldFails(f) =>
            IF model[1].debug
            THEN model[1].out.raises = rel_of(model[1].self.fields[f], model[1].base[f]).raises
            ELSE /\ model[1].out.raises = ""
                 /\ f \notin DOMAIN model[1].out.value.search_results
                 /\ \E k \in DOMAIN model[1].out.logged : model[1].out.logged[k].field = f

\* C23: when one complex field fails, debug mode raises the failure; so does
\* permissive mode unless the failure is an AttributeError or a TypeError, in
\* which case it yields the parent object, search_results holding the raw
\* value of the field, the field not set on the object, one error record
\* logged for it, and the other complex fields reconstructed.
C23_ComplexFieldFailure ==
    \A f \in ComplexFieldNames :
        OneFieldFails(f) =>
            LET rel == rel_of(model[1].self.fields[f], model[1].base[f])
                out == model[1].out
            IN IF model[1].debug \/ rel.raises \notin {"AttributeError", "TypeError"}
               THEN out.raises = rel.raises
               ELSE /\ out.raises = ""
                    /\ out.value.search_results[f] = model[1].base[f]
                    /\ f \notin out.value.relations
                    /\ Len(out.logged) = 1
                    /\ out.logged[1].field = f /\ out.logged[1].level = "ERROR"
                    /\ \A g \in (ComplexFieldNames \ {f}) \cap DOMAIN model[1].base :
                          out.value.search_results[g] =
                              rel_of(model[1].self.fields[g], model[1].base[g]).value

\* permissive mode, a nested id that is no integer: the document is aborted
C23_Witness ==
    /\ OneFieldFails("author")
    /\ ~model[1].debug
    /\ model[1].base.author = RawDict([id |-> Some("x"), name |-> "n"])
    /\ model[1].self.fields.author = "SuspendersModel"
    /\ "editor" \in DOMAIN model[1].base
    /\ model[1].out.raises = "ValueError"

\* ------------------------------------------------------------------ TopHits
TopHitsNames == {"top_hits", "f", "best"}

TopHitsSorts == {<<>>, <<[modified |-> "desc"]>>}

TopHitsArgs == {TopHits(sort, size, name) : sort \in TopHitsSorts, size \in {1, 10},
                                            name \in TopHitsNames}

AggregationTopHits(i, term, th) ==
    Mutator("aggregation", i, <<term>>, FALSE, clone(i),
            aggregation_top_hits(clone(i).self, term, 10, th))

NextTopHits ==
    \/ \E term \in AggregationTerms : AggregationOf(Len(qs), term)
    \/ \E term \in AggregationTerms, th \in TopHitsArgs : AggregationTopHits(Len(qs), term, th)

\* Terms aggregations requested with and without a TopHits sub-aggregation.
SpecTopHits == Init /\ [][NextTopHits]_vars

\* ------------------------------------------------------------------ C24
\* the terms aggregations that were given a TopHits
WithTopHits ==
    {agg \in UNION {{qs[i]._aggs_fields[k] : k \in DOMAIN qs[i]._aggs_fields} : i \in Instances} :
        "with_top_hits" \in DOMAIN agg}

\* the serialization has the parent's name as its one key, and under it
\* "terms" and "aggregations" side by side
NestedUnderParent(agg) ==
    /\ DOMAIN TermsFilter_serialize(agg) = {agg.name}
    /\ DOMAIN TermsFilter_serialize(agg)[agg.name] = {"terms", "aggregations"}

\* C24 as stated: the top-hits is serialized under the parent's entry, in
\* its "aggregations" member, keyed by the parent aggregation's declared name.
C24_Original ==
    \A agg \in WithTopHits :
        /\ NestedUnderParent(agg)
        /\ DOMAIN TermsFilter_serialize(agg)[agg.name].aggregations = {agg.name}

\* C24: the top-hits is serialized under the parent's entry, which is keyed
\* by the parent aggregation's declared name, in an "aggregations" member
\* beside "terms"; in that member it is keyed by the name of the TopHits
\* itself and holds its sort and size.  The compiled aggregations hold the
\* entry of the last aggregation of each name.
C24_TopHitsNesting ==
    /\ \A agg \in WithTopHits :
          /\ NestedUnderParent(agg)
          /\ TermsFilter_serialize(agg)[agg.name].aggregations =
                [n \in {agg.with_top_hits.name} |->
                   [top_hits |-> [sort |-> agg.with_top_hits._sort,
                                  size |-> agg.with_top_hits.size]]]
    /\ \A i \in Instances :
          (NonEmpty(qs[i]._aggs_fields)
             /\ "with_top_hits" \in DOMAIN qs[i]._aggs_fields[Len(qs[i]._aggs_fields)]) =>
              LET agg == qs[i]._aggs_fields[Len(qs[i]._aggs_fields)]
              IN serialized_aggregations(qs[i])[agg.name] = TermsFilter_serialize(agg)[agg.name]

\* a terms aggregation on "f" was given a TopHits named "best"
C24_Witness ==
    \E agg \in WithTopHits :
        /\ agg.name = "f"
        /\ agg.with_top_hits.name = "best"
        /\ "aggregations" \in DOMAIN serialized_aggregations(qs[Len(qs)]).f
        /\ "best" \in DOMAIN serialized_aggregations(qs[Len(qs)]).f.aggregations

\* ------------------------------------------------------------------ C25
\* the serialized negative filters of a QuerySet
SerializedNegatives(self) ==
    [k \in DOMAIN negative_filters(self._filters) |-> to_dict(negative_filters(self._filters)[k])]

\* the must_not list of a serialized bool, empty when the key is not written
MustNotOf(d) == IF "must_not" \in DOMAIN d.bool THEN d.bool.must_not ELSE <<>>

\* the compiled query of a QuerySet that compiles
CompiledQuery(self) == QuerySet_to_dict(self).value.query

\* C25: in the compiled query of every QuerySet that compiles, the negative
\* filters are exactly the must_not list of the filter-context bool (the
\* filter of the constant_score, or the filter of the outer bool), and
\* neither the outer bool nor the search-context bool has a must_not key.
C25_MustNotInFilterContext ==
    \A i \in Instances :
        (~qs[i]._is_none_set /\ Compiles(qs[i])) =>
            LET q == CompiledQuery(qs[i])
            IN IF "match_all" \in DOMAIN q THEN SerializedNegatives(qs[i]) = <<>>
               ELSE IF "constant_score" \in DOMAIN q
               THEN MustNotOf(q.constant_score.filter) = SerializedNegatives(qs[i])
               ELSE /\ "must_not" \notin DOMAIN q.bool
                    /\ IF "filter" \in DOMAIN q.bool
                       THEN /\ MustNotOf(q.bool.filter) = SerializedNegatives(qs[i])
                            /\ Len(q.bool.must) = 1
                            /\ "must_not" \notin DOMAIN q.bool.must[1].bool
                       ELSE SerializedNegatives(qs[i]) = <<>>

\* a QuerySet with a search query and an excluded filter: the exclusion is in
\* the filter of the outer bool
C25_Witness ==
    \E i \in Instances :
        /\ ~qs[i]._is_none_set
        /\ Compiles(qs[i])
        /\ NonEmpty(qs[i]._must_search_set)
        /\ NonEmpty(negative_filters(qs[i]._filters))
        /\ "bool" \in DOMAIN CompiledQuery(qs[i])
        /\ "filter" \in DOMAIN CompiledQuery(qs[i]).bool
        /\ MustNotOf(CompiledQuery(qs[i]).bool.filter) = SerializedNegatives(qs[i])

\* ------------------------------------------------------------------ concurrent callers
\* Several callers run execute() on the one instance qs[1].  A caller is
\* between two statements of execute(): before the tests ("idle"), inside
\* raw_search ("search"), before "self._result_set = results" ("write"),
\* before "return self._result_set" ("return"), or back ("done").
MaxThreads == 2
Threads == 1..MaxThreads

\* "self._result_set = results" done only while the cache is empty
write_cache_guarded(self, results) ==
    IF self._result_set # None THEN self ELSE [self EXCEPT !._result_set = results]

\* execute: "self._result_set = results"
write_cache(self, results) == [self EXCEPT !._result_set = results]

\* caller t enters execute(): the tests that come before the search
ExecuteEnter(t) ==
    LET self == qs[1]
        body == QuerySet_to_dict(self)
        th == threads[1]
        back(ret) == [th EXCEPT !.pc[t] = "done", !.ret[t] = Some(ret),
                                !.saw[t] = Some(self._result_set # None)]
    IN /\ threads # None
       /\ th.pc[t] = "idle"
       /\ threads' = Some(IF execute_cached(self) THEN back(Ok(self._result_set))
                          ELSE IF self._is_none_set THEN back(Ok(Some(empty_result_set)))
                          ELSE IF body.raises # "" THEN back(body)
                          ELSE [th EXCEPT !.pc[t] = "search",
                                          !.saw[t] = Some(self._result_set # None)])
       /\ UNCHANGED <<qs, searchCalls, countCalls, last, bq, rset, bulk, item, model>>

\* caller t is in raw_search; the store does outcome
ExecuteSearch(t, outcome) ==
    LET results == raw_search(QuerySet_to_dict(qs[1]).value, outcome)
        th == threads[1]
    IN /\ threads # None
       /\ th.pc[t] = "search"
       /\ searchCalls' = [searchCalls EXCEPT ![1] = @ + 1]
       /\ threads' = Some(IF results.raises # ""
                          THEN [th EXCEPT !.pc[t] = "done", !.ret[t] = Some(results),
                                          !.searched[t] = TRUE]
                          ELSE [th EXCEPT !.pc[t] = "write", !.held[t] = results.value,
                                          !.searched[t] = TRUE])
       /\ UNCHANGED <<qs, countCalls, last, bq, rset, bulk, item, model>>

\* caller t runs "self._result_set = results"
ExecuteWrite(t) ==
    /\ threads # None
    /\ threads[1].pc[t] = "write"
    /\ qs' = [qs EXCEPT ![1] = write_cache(qs[1], threads[1].held[t])]
    /\ threads' = Some([threads[1] EXCEPT !.pc[t] = "return", !.writes = Append(@, t)])
    /\ UNCHANGED <<searchCalls, countCalls, last, bq, rset, bulk, item, model>>

\* caller t runs "return self._result_set"
ExecuteReturn(t) ==
    /\ threads # None
    /\ threads[1].pc[t] = "return"
    /\ threads' = Some([threads[1] EXCEPT !.pc[t] = "done",
                                          !.ret[t] = Some(Ok(qs[1]._result_set))])
    /\ UNCHANGED <<qs, searchCalls, countCalls, last, bq, rset, bulk, item, model>>

InitThreads ==
    /\ qs = <<NewQuerySet>>
    /\ searchCalls = <<0>>
    /\ countCalls = <<0>>
    /\ last = NoCall
    /\ bq = None
    /\ rset = None
    /\ bulk = None
    /\ item = None
    /\ model = None
    /\ threads = Some([pc |-> [t \in Threads |-> "idle"],
                       saw |-> [t \in Threads |-> None],
                       searched |-> [t \in Threads |-> FALSE],
                       held |-> [t \in Threads |-> None],
                       ret |-> [t \in Threads |-> None],
                       writes |-> <<>>])

NextThreads ==
    \/ \E t \in Threads : ExecuteEnter(t)
    \/ \E t \in Threads, outcome \in Responses \cup StoreErrors : ExecuteSearch(t, outcome)
    \/ \E t \in Threads : ExecuteWrite(t)
    \/ \E t \in Threads : ExecuteReturn(t)

\* Callers of execute() on one instance, interleaved statement by statement.
SpecThreads == InitThreads /\ [][NextThreads]_vars

\* ------------------------------------------------------------------ C26
\* C26 as stated: whatever the interleaving, the cache is written at most
\* once and at most one search reaches the store.
C26_Original ==
    threads # None => (Len(threads[1].writes) <= 1 /\ searchCalls[1] <= 1)

\* C26: a caller that finds a result in the cache when it enters execute()
\* issues no search and writes nothing; every caller that finds the cache
\* empty issues one search of its own and, when the search returns, writes
\* the cache once, so that there are at most as many searches and writes as
\* there are such callers, and the cache holds what the last writer wrote.
C26_ExecuteInterleaved ==
    threads # None =>
        LET th == threads[1]
            writers == {th.writes[k] : k \in DOMAIN th.writes}
        IN /\ \A t \in Threads :
                 (th.saw[t] = Some(TRUE)) => (~th.searched[t] /\ t \notin writers)
           /\ searchCalls[1] = Cardinality({t \in Threads : th.searched[t]})
           /\ Len(th.writes) = Cardinality(writers)
           /\ writers = {t \in Threads : th.searched[t] /\ th.pc[t] \in {"return", "done"}
                                          /\ (th.pc[t] = "done" => th.ret[t][1].raises = "")}
           /\ NonEmpty(th.writes) => qs[1]._result_set = th.held[th.writes[Len(th.writes)]]

\* two callers both found the cache empty: two searches reached the store
\* and the cache was written twice, with two different results
C26_Witness ==
    /\ threads # None
    /\ searchCalls[1] = 2
    /\ Len(threads[1].writes) = 2
    /\ threads[1].held[1] # threads[1].held[2]
    /\ \A t \in Threads : threads[1].pc[t] = "done"

\* ------------------------------------------------------------------ C27
\* SuspendersQuerySet.__len__: len(qs) is "return self.count()", and len()
\* takes an integer that is not negative
QuerySet_len(counted) ==
    IF counted = None THEN Raise("TypeError", "__len__")
    ELSE IF counted[1] < 0 THEN Raise("ValueError", "__len__")
    ELSE Ok(counted[1])

\* SuspendersQuerySet.__bool__: "return self.count() > 0"
QuerySet_bool(counted) ==
    IF counted = None THEN Raise("TypeError", ">") ELSE Ok(counted[1] > 0)

\* C27: every count() that returns, returns an integer that is not negative,
\* so that len() and bool() of the QuerySet return as well, whatever the
\* instance holds in its cache.
C27_Original ==
    (last.op = "count" /\ last.raises = "") =>
        /\ last.count # None
        /\ QuerySet_len(last.count).raises = ""
        /\ QuerySet_bool(last.count).raises = ""

\* count() on an instance with hit tracking off, after execute() cached the
\* response to it, which has no hits.total: count() returned None and len()
\* raises TypeError
C27_Witness ==
    /\ last.op = "count"
    /\ last.raises = ""
    /\ ~qs[last.self]._track_total_hits
    /\ qs[last.self]._result_set # None
    /\ "total" \notin DOMAIN qs[last.self]._result_set[1]._raw.hits
    /\ last.count = None
    /\ countCalls[last.self] = 0
    /\ QuerySet_len(last.count).raises = "TypeError"
    /\ QuerySet_bool(last.count).raises = "TypeError"

\* ------------------------------------------------------------------ IndexedItem
\* One object of a registered model class: its _should_index flag, its
\* primary key (0 while it has none), the number of times it was written to
\* the database (saved) and added to the index (indexed), the module flag
\* sites.disable_indexing, and the last call with its outcome.
MaxSaves == 3

NewItem ==
    [_should_index |-> TRUE, pk |-> 0, saved |-> 0, indexed |-> 0,
     disable_indexing |-> FALSE,
     op |-> "init", raises |-> "", persisted |-> FALSE, added |-> FALSE, accepted |-> TRUE]

\* sites.index, the post_save handler: what it returns ("None", "False",
\* "True"), what it raises, and whether it added the object to the index.
\* accepted is what index_test_function says (TRUE when there is none),
\* store_ok whether conn.index returns.
index(obj, accepted, store_ok) ==
    IF obj.disable_indexing THEN [raises |-> "", value |-> "None", added |-> FALSE]
    ELSE IF ~obj._should_index THEN [raises |-> "", value |-> "False", added |-> FALSE]
    ELSE IF obj.pk = 0 THEN [raises |-> "", value |-> "False", added |-> FALSE]
    ELSE IF ~accepted THEN [raises |-> "", value |-> "False", added |-> FALSE]
    ELSE IF ~store_ok THEN [raises |-> "ConnectionError", value |-> "", added |-> FALSE]
    ELSE [raises |-> "", value |-> "True", added |-> TRUE]

\* Model.save: the database write, which may raise, then the post_save signal
save(obj, db_ok, accepted, store_ok) ==
    IF ~db_ok
    THEN [obj EXCEPT !.raises = "DatabaseError", !.persisted = FALSE, !.added = FALSE,
                     !.accepted = accepted]
    ELSE LET stored == [obj EXCEPT !.pk = 1, !.saved = @ + 1]
             handled == index(stored, accepted, store_ok)
         IN [stored EXCEPT !.raises = handled.raises, !.persisted = TRUE,
                           !.added = handled.added, !.accepted = accepted,
                           !.indexed = @ + (IF handled.added THEN 1 ELSE 0)]

\* IndexedItem.save_without_indexing: the flag is set again only when save()
\* returned
save_without_indexing(obj, db_ok, accepted, store_ok) ==
    LET saved == save([obj EXCEPT !._should_index = FALSE], db_ok, accepted, store_ok)
    IN IF saved.raises # "" THEN saved ELSE [saved EXCEPT !._should_index = TRUE]

\* obj.save()
Save(db_ok, accepted, store_ok) ==
    /\ item # None
    /\ item[1].saved < MaxSaves
    /\ item' = Some([save(item[1], db_ok, accepted, store_ok) EXCEPT !.op = "save"])
    /\ UNCHANGED <<qs, searchCalls, countCalls, last, bq, rset, bulk, threads, model>>

\* obj.save_without_indexing()
SaveWithoutIndexing(db_ok, accepted, store_ok) ==
    /\ item # None
    /\ item[1].saved < MaxSaves
    /\ item' = Some([save_without_indexing(item[1], db_ok, accepted, store_ok)
                        EXCEPT !.op = "save_without_indexing"])
    /\ UNCHANGED <<qs, searchCalls, countCalls, last, bq, rset, bulk, threads, model>>

\* sites.disable_indexing = value
SetDisableIndexing(value) ==
    /\ item # None
    /\ item[1].disable_indexing # value
    /\ item' = Some([item[1] EXCEPT !.disable_indexing = value, !.op = "disable_indexing",
                                    !.raises = "", !.persisted = FALSE, !.added = FALSE])
    /\ UNCHANGED <<qs, searchCalls, countCalls, last, bq, rset, bulk, threads, model>>

InitItem ==
    /\ qs = <<NewQuerySet>>
    /\ searchCalls = <<0>>
    /\ countCalls = <<0>>
    /\ last = NoCall
    /\ bq = None
    /\ rset = None
    /\ bulk = None
    /\ threads = None
    /\ model = None
    /\ item = Some(NewItem)

NextItem ==
    \/ \E db_ok, accepted, store_ok \in BOOLEAN : Save(db_ok, accepted, store_ok)
    \/ \E db_ok, accepted, store_ok \in BOOLEAN : SaveWithoutIndexing(db_ok, accepted, store_ok)
    \/ \E value \in BOOLEAN : SetDisableIndexing(value)

\* An object of a registered model class saved with and without indexing.
SpecItem == InitItem /\ [][NextItem]_vars

\* ------------------------------------------------------------------ C29
\* C29: a save_without_indexing() that returned has written the object to the
\* database, none has added it to the index, and after each of them, returned
\* or raised, _should_index is true; so that every ordinary save() that
\* returns while indexing is enabled and the registered test accepts the
\* object has added it to the index.
C29_Original ==
    item # None =>
        /\ item[1].op = "save_without_indexing" =>
              /\ ~item[1].added
              /\ item[1].raises = "" => item[1].persisted
              /\ item[1]._should_index
        /\ (item[1].op = "save" /\ item[1].raises = "" /\ ~item[1].disable_indexing
               /\ item[1].accepted) => item[1].added

\* an ordinary save() returned, indexing enabled and the object acceptable,
\* and did not index it: the flag was left false by a save_without_indexing()
\* whose save() raised
C29_Witness ==
    /\ item # None
    /\ item[1].op = "save"
    /\ item[1].raises = ""
    /\ item[1].persisted
    /\ ~item[1].disable_indexing
    /\ item[1].accepted
    /\ ~item[1].added
    /\ ~item[1]._should_index

\* ------------------------------------------------------------------ C30
\* ResultSet.__len__: len(self._documents)
ResultSet_len(self) == Len(self._documents)

\* ResultSet.__bool__: "return len(self._documents) == 0"
ResultSet_bool(self) == Len(self._documents) = 0

\* C30: bool() of every ResultSet execute() returns equals len() > 0 of it,
\* and the ResultSet of a none-set is falsy.
C30_Original ==
    (last.op = "execute" /\ last.raises = "" /\ last.rs # None) =>
        /\ ResultSet_bool(last.rs[1]) = (ResultSet_len(last.rs[1]) > 0)
        /\ qs[last.self]._is_none_set => ~ResultSet_bool(last.rs[1])

\* execute() on a none-set returned the empty ResultSet, which is truthy
\* though it holds no hit
C30_Witness ==
    /\ last.op = "execute"
    /\ last.raises = ""
    /\ qs[last.self]._is_none_set
    /\ last.rs = Some(empty_result_set)
    /\ ResultSet_len(last.rs[1]) = 0
    /\ ResultSet_bool(last.rs[1])

====
